---- MODULE Spec2Model ----
(***************************************************************************)
(* mdbook-diataxis: the directive preprocessor of src/src/lib.rs.          *)
(*                                                                         *)
(* Text is a sequence of symbols.  The characters of the directive markers *)
(* are single-character symbols, so that matching is decided character by  *)
(* character; the fixed fragments of the rendered markup, chapter names    *)
(* and path names are longer symbols that contain no marker character.     *)
(* A path string is a sequence of the symbols "/" and "." and of names.    *)
(***************************************************************************)
EXTENDS Naturals, Integers, Sequences, FiniteSets, TLC

VARIABLES raw, input, book, config, pc, err, stack, stderr, calls, rewritten,
          args, stdin, stdout, exit_code, files, runs

vars == <<raw, input, book, config, pc, err, stack, stderr, calls, rewritten,
          args, stdin, stdout, exit_code, files, runs>>

\* The state of the command-line program around a call of run.
process == <<args, stdin, stdout, exit_code, files, runs>>

(***************************************************************************)
(* Bounds of the explored inputs.                                          *)
(***************************************************************************)
MaxChunks == 3
MaxLinkLen == 5
MaxChildren == 3
MaxOverridden == 2
MaxEvents == 3
MaxRuns == 2
MaxCss == 2

(***************************************************************************)
(* Option<T>: None is the empty tuple, Some(v) the one-element tuple.      *)
(***************************************************************************)
None == <<>>
Some(v) == <<v>>
IsSome(o) == Len(o) = 1
Unwrap(o) == o[1]

RECURSIVE Flatten(_)
Flatten(ss) == IF ss = <<>> THEN <<>> ELSE Head(ss) \o Flatten(Tail(ss))

Min(S) == CHOOSE x \in S : \A y \in S : x <= y
Max(S) == CHOOSE x \in S : \A y \in S : x >= y

(***************************************************************************)
(* Replacement::pattern: the three literal markers.                        *)
(***************************************************************************)
MalformedPattern == <<"{", "{", "#", "d", "i", "a", "t", "a", "x", "i", "s">>
CompassPattern == MalformedPattern \o <<" ", "c", "o", "m", "p", "a", "s", "s", "}", "}">>
TocPattern == MalformedPattern \o <<" ", "t", "a", "b", "l", "e", "-", "o", "f", "-", "c", "o", "n", "t", "e", "n", "t", "s", "}", "}">>

pattern(kind) ==
    CASE kind = "Compass" -> CompassPattern
      [] kind = "Toc" -> TocPattern
      [] kind = "Malformed" -> MalformedPattern

\* Replacement::patterns: the pattern table handed to the matcher, in index order.
patterns == <<pattern("Compass"), pattern("Toc"), pattern("Malformed")>>

\* Replacement::from_pattern_index (indices are 1-based here).
from_pattern_index(index) == <<"Compass", "Toc", "Malformed">>[index]

is_malformed(kind) == kind = "Malformed"

(***************************************************************************)
(* The matcher built in preprocess_text: MatchKind::LeftmostLongest over   *)
(* patterns, iterated without overlap by replace_all_with.                 *)
(***************************************************************************)
OccursAt(text, i, p) ==
    /\ i + Len(p) - 1 <= Len(text)
    /\ SubSeq(text, i, i + Len(p) - 1) = p

\* The patterns that occur in text starting at position i.
PatternsAt(text, i) == {k \in DOMAIN patterns : OccursAt(text, i, patterns[k])}

\* MatchKind::Standard: of the patterns at one start, the one that ends first.
StandardOf(found) ==
    CHOOSE k \in found : \A j \in found : Len(patterns[k]) <= Len(patterns[j])

\* MatchKind::LeftmostLongest: of the patterns at one start, the longest.
LeftmostLongestOf(found) ==
    CHOOSE k \in found : \A j \in found : Len(patterns[k]) >= Len(patterns[j])

MatchOf(s, k) == [start |-> s, end |-> s + Len(patterns[k]), pattern |-> k]

\* The next match at or after position from: the leftmost start wins.
RECURSIVE FindFrom(_, _)
FindFrom(text, from) ==
    IF from > Len(text) THEN None
    ELSE IF PatternsAt(text, from) # {}
    THEN Some(MatchOf(from, LeftmostLongestOf(PatternsAt(text, from))))
    ELSE FindFrom(text, from + 1)

\* find_iter: the non-overlapping matches of text from position from on;
\* the search resumes at the end of each match.
RECURSIVE FindIter(_, _)
MatchThenRest(text, m) ==
    IF IsSome(m) THEN m \o FindIter(text, Unwrap(m).end) ELSE <<>>
FindIter(text, from) == MatchThenRest(text, FindFrom(text, from))

(***************************************************************************)
(* std::path::Path on a Unix target.  A path string is a sequence of the   *)
(* symbols "/" and "." and of names free of both.  A component is a record *)
(* [kind, name]; name is the symbols of a Normal component, else empty.    *)
(***************************************************************************)
Sep == "/"
Dot == "."

has_root(p) == Len(p) >= 1 /\ p[1] = Sep

\* Components::include_cur_dir: a leading "." that stands alone.
include_cur_dir(p) ==
    /\ Len(p) >= 1 /\ p[1] = Dot
    /\ (Len(p) = 1 \/ p[2] = Sep)

\* Components::len_before_body: the root or the leading ".".
len_before_body(p) == IF has_root(p) \/ include_cur_dir(p) THEN 1 ELSE 0

\* Position of the last separator of p after position lo, or lo if none.
RECURSIVE LastSep(_, _, _)
LastSep(p, lo, i) ==
    IF i <= lo THEN lo ELSE IF p[i] = Sep THEN i ELSE LastSep(p, lo, i - 1)

\* p without its last piece and the separator before it.
BeforePiece(p, lo, k) == SubSeq(p, 1, IF k > lo THEN k - 1 ELSE lo)

\* Components::parse_single_component: an empty or "." piece is no component.
IsComponent(piece) == piece # <<>> /\ piece # <<Dot>>

parse_single_component(piece) ==
    IF piece = <<Dot, Dot>> THEN [kind |-> "ParentDir", name |-> <<>>]
    ELSE [kind |-> "Normal", name |-> piece]

\* Components::trim_right: drop the trailing empty and "." pieces of the body
\* together with the separator before each.
RECURSIVE TrimBody(_, _)
TrimPiece(p, lo, k) ==
    IF IsComponent(SubSeq(p, k + 1, Len(p))) THEN p
    ELSE TrimBody(BeforePiece(p, lo, k), lo)
TrimBody(p, lo) == IF Len(p) <= lo THEN p ELSE TrimPiece(p, lo, LastSep(p, lo, Len(p)))

trim_right(p) == TrimBody(p, len_before_body(p))

\* The components of the body of p, front to back.
RECURSIVE BodyComponents(_, _)
PieceComponent(piece) ==
    IF IsComponent(piece) THEN <<parse_single_component(piece)>> ELSE <<>>
BodyPiece(p, lo, k) ==
    BodyComponents(BeforePiece(p, lo, k), lo) \o PieceComponent(SubSeq(p, k + 1, Len(p)))
BodyComponents(p, lo) ==
    IF Len(p) <= lo THEN <<>> ELSE BodyPiece(p, lo, LastSep(p, lo, Len(p)))

\* Path::components.
components(p) ==
    (IF has_root(p) THEN <<[kind |-> "RootDir", name |-> <<>>]>>
     ELSE IF include_cur_dir(p) THEN <<[kind |-> "CurDir", name |-> <<>>]>>
     ELSE <<>>) \o BodyComponents(p, len_before_body(p))

\* Component::as_os_str.
as_os_str(c) ==
    CASE c.kind = "RootDir" -> <<Sep>>
      [] c.kind = "CurDir" -> <<Dot>>
      [] c.kind = "ParentDir" -> <<Dot, Dot>>
      [] c.kind = "Normal" -> c.name

\* Path::file_name: the last component when it is Normal.
LastNormal(cs) ==
    IF cs # <<>> /\ cs[Len(cs)].kind = "Normal" THEN Some(cs[Len(cs)].name) ELSE None
file_name(p) == LastNormal(components(p))

\* Path::parent of a path that has a file name: the string before the last
\* component, with what trails it trimmed.
ParentOfTrimmed(q, lo) == TrimBody(BeforePiece(q, lo, LastSep(q, lo, Len(q))), lo)
parent(p) == ParentOfTrimmed(trim_right(p), len_before_body(p))

\* PathBuf::push of a relative or absolute path string.
push(buf, p) ==
    IF has_root(p) THEN p
    ELSE IF buf # <<>> /\ buf[Len(buf)] # Sep THEN buf \o <<Sep>> \o p
    ELSE buf \o p

\* Path::with_file_name: set_file_name on a copy; the last component is popped
\* when there is a file name, and the name is pushed.
with_file_name(p, name) == push(IF IsSome(file_name(p)) THEN parent(p) ELSE p, name)

\* rsplit_file_at_dot: the position of the dot that splits stem and extension,
\* 0 when the name has no extension.
RECURSIVE LastDot(_, _)
LastDot(name, i) == IF i <= 1 THEN 0 ELSE IF name[i] = Dot THEN i ELSE LastDot(name, i - 1)

ExtensionAt(name, d) == IF d = 0 THEN None ELSE Some(SubSeq(name, d + 1, Len(name)))
ExtensionOf(f) == IF IsSome(f) THEN ExtensionAt(Unwrap(f), LastDot(Unwrap(f), Len(Unwrap(f)))) ELSE None

\* Path::extension.
extension(p) == ExtensionOf(file_name(p))

\* PathBuf::set_extension: nothing without a file name; else the string is cut
\* right after the file stem and "." and the extension are appended.
CutAfterStem(q, name, d) ==
    IF d = 0 THEN q ELSE SubSeq(q, 1, Len(q) - (Len(name) - d + 1))
SetExtensionOf(p, q, f, ext) ==
    IF ~IsSome(f) THEN p
    ELSE CutAfterStem(q, Unwrap(f), LastDot(Unwrap(f), Len(Unwrap(f)))) \o <<Dot>> \o ext
set_extension(p, ext) == SetExtensionOf(p, trim_right(p), file_name(p), ext)

\* FromIterator<Component> for PathBuf: push every component in turn.
RECURSIVE collect(_, _)
collect(buf, cs) ==
    IF cs = <<>> THEN buf ELSE collect(push(buf, as_os_str(Head(cs))), Tail(cs))

(***************************************************************************)
(* Result<T>, and toml::Value / toml::value::Table.  A table is a function *)
(* from its keys to values; an anyhow error is its chain of messages,      *)
(* outermost context first, each message a tuple of its pieces (the        *)
(* backquotes of the messages are written as single quotes).               *)
(***************************************************************************)
Ok(v) == [ok |-> TRUE, val |-> v, err |-> <<>>]
Err(e) == [ok |-> FALSE, val |-> <<>>, err |-> e]

StringValue(s) == [type |-> "String", val |-> s]
IntegerValue == [type |-> "Integer", val |-> <<>>]
TableValue(t) == [type |-> "Table", val |-> t]
EmptyTable == [k \in {} |-> IntegerValue]

\* Table::get
get(table, key) == IF key \in DOMAIN table THEN Some(table[key]) ELSE None
\* Value::as_str and Value::as_table
as_str(v) == IF v.type = "String" THEN Some(v.val) ELSE None
as_table(v) == IF v.type = "Table" THEN Some(v.val) ELSE None

(***************************************************************************)
(* SectionConfig and Config.                                               *)
(***************************************************************************)
SectionConfigDefault ==
    [title_override |-> None, description_override |-> None, link_override |-> None]

ConfigDefault ==
    [tutorials |-> SectionConfigDefault, how_to_guides |-> SectionConfigDefault,
     reference |-> SectionConfigDefault, explanation |-> SectionConfigDefault]

ReadmeMd == <<"README", Dot, "md">>
IndexHtml == <<"index", Dot, "html">>
Html == <<"html">>

\* A link that keeps the file name README.md: only the extension is set.
link_path_keep_readme(path) == set_extension(path, Html)

\* A link that keeps its extension: only README.md is replaced.
link_path_keep_extension(path) ==
    IF file_name(path) = Some(ReadmeMd) THEN with_file_name(path, IndexHtml) ELSE path

\* SectionConfig::new, the two maps over the link string: a file name README.md
\* becomes index.html, then the extension is set to html.
link_path(path) ==
    set_extension(
        IF file_name(path) = Some(ReadmeMd) THEN with_file_name(path, IndexHtml) ELSE path,
        Html)

\* A field read that drops a value of the wrong type instead of failing.
StringOrNone(key, v) == Ok(IF IsSome(v) THEN as_str(Unwrap(v)) ELSE None)

\* One string field of a section table: absent, a string, or an error.
StringOrError(key, v) ==
    IF ~IsSome(v) THEN Ok(None)
    ELSE IF Unwrap(v).type = "String" THEN Ok(as_str(Unwrap(v)))
    ELSE Err(<< <<"'", key, "' field must be a string">> >>)

string_field(config_table, key) == StringOrError(key, get(config_table, key))

LinkOverride(link) == IF IsSome(link) THEN Some(link_path(Unwrap(link))) ELSE None

SectionConfigOf(title, description, link) ==
    IF ~title.ok THEN title
    ELSE IF ~description.ok THEN description
    ELSE IF ~link.ok THEN link
    ELSE Ok([title_override |-> title.val,
             description_override |-> description.val,
             link_override |-> LinkOverride(link.val)])

\* SectionConfig::new
SectionConfig_new(config_table) ==
    SectionConfigOf(string_field(config_table, "title"),
                    string_field(config_table, "description"),
                    string_field(config_table, "link"))

\* The closure section_overrides of Config::new, step by step.
WithContext(section, parsed) ==
    IF parsed.ok THEN parsed
    ELSE Err(<< <<"cannot parse 'compass.", section, "' table">> >> \o parsed.err)

SectionOf(section, section_value) ==
    IF ~IsSome(section_value) THEN Ok(SectionConfigDefault)
    ELSE IF Unwrap(section_value).type # "Table"
    THEN Err(<< <<"'compass.", section, "' field must be a table">> >>)
    ELSE WithContext(section, SectionConfig_new(Unwrap(section_value).val))

CompassOf(section, compass) ==
    IF ~IsSome(compass) THEN Ok(SectionConfigDefault)
    ELSE IF Unwrap(compass).type # "Table"
    THEN Err(<< <<"'compass' field must be a table">> >>)
    ELSE SectionOf(section, get(Unwrap(compass).val, section))

section_overrides(rawt, section) == CompassOf(section, get(rawt, "compass"))

\* A resolution that reports the error of the last section that fails.
ConfigOfLastError(tutorials, how_to_guides, explanation, reference) ==
    IF ~reference.ok THEN reference
    ELSE IF ~explanation.ok THEN explanation
    ELSE IF ~how_to_guides.ok THEN how_to_guides
    ELSE IF ~tutorials.ok THEN tutorials
    ELSE Ok([tutorials |-> tutorials.val, how_to_guides |-> how_to_guides.val,
             explanation |-> explanation.val, reference |-> reference.val])

ConfigOf(tutorials, how_to_guides, explanation, reference) ==
    IF ~tutorials.ok THEN tutorials
    ELSE IF ~how_to_guides.ok THEN how_to_guides
    ELSE IF ~explanation.ok THEN explanation
    ELSE IF ~reference.ok THEN reference
    ELSE Ok([tutorials |-> tutorials.val, how_to_guides |-> how_to_guides.val,
             explanation |-> explanation.val, reference |-> reference.val])

\* Config::new with the reference section read from the explanation key.
Config_new_crossed(rawt) ==
    ConfigOf(section_overrides(rawt, "tutorials"),
             section_overrides(rawt, "how-to-guides"),
             section_overrides(rawt, "explanation"),
             section_overrides(rawt, "explanation"))

\* Config::new
Config_new(rawt) ==
    ConfigOf(section_overrides(rawt, "tutorials"),
             section_overrides(rawt, "how-to-guides"),
             section_overrides(rawt, "explanation"),
             section_overrides(rawt, "reference"))

\* Option::unwrap_or
unwrap_or(o, default) == IF IsSome(o) THEN Unwrap(o) ELSE default

tutorials_title(cfg) == unwrap_or(cfg.tutorials.title_override, <<"Tutorials">>)
tutorials_description(cfg) ==
    unwrap_or(cfg.tutorials.description_override, <<"Hands-on lessons">>)
tutorials_link(cfg) ==
    unwrap_or(cfg.tutorials.link_override,
              <<Dot, Sep, "tutorials", Sep, "index", Dot, "html">>)

how_to_guides_title(cfg) == unwrap_or(cfg.how_to_guides.title_override, <<"How-to guides">>)
how_to_guides_description(cfg) ==
    unwrap_or(cfg.how_to_guides.description_override,
              <<"Step-by-step instructions for common tasks">>)
how_to_guides_link(cfg) ==
    unwrap_or(cfg.how_to_guides.link_override,
              <<Dot, Sep, "how-to", Sep, "index", Dot, "html">>)

explanation_title(cfg) == unwrap_or(cfg.explanation.title_override, <<"Explanation">>)
explanation_description(cfg) ==
    unwrap_or(cfg.explanation.description_override,
              <<"Long-form discussion of key topics">>)
explanation_link(cfg) ==
    unwrap_or(cfg.explanation.link_override,
              <<Dot, Sep, "explanations", Sep, "index", Dot, "html">>)

reference_title(cfg) == unwrap_or(cfg.reference.title_override, <<"Reference">>)
reference_description(cfg) ==
    unwrap_or(cfg.reference.description_override, <<"Technical information">>)
reference_link(cfg) ==
    unwrap_or(cfg.reference.link_override,
              <<Dot, Sep, "reference-materials", Sep, "index", Dot, "html">>)

(***************************************************************************)
(* The document tree.  A book item is a record; a chapter's content is     *)
(* held as the event sequence of its markdown, a Text event carrying text. *)
(***************************************************************************)
Chapter(name, content, source_path, sub_items) ==
    [kind |-> "Chapter", name |-> name, content |-> content,
     source_path |-> source_path, sub_items |-> sub_items]
Separator == [kind |-> "Separator"]
PartTitle(title) == [kind |-> "PartTitle", title |-> title]

Text(text) == [type |-> "Text", text |-> text]
Code(text) == [type |-> "Code", text |-> text]
HtmlEvent(text) == [type |-> "Html", text |-> text]
Start(tag) == [type |-> "Start", tag |-> tag]
End(tag) == [type |-> "End", tag |-> tag]
SoftBreak == [type |-> "SoftBreak"]
InlineHtml(text) == [type |-> "InlineHtml", text |-> text]
\* An event that pulldown_cmark_to_cmark::cmark returns an error for.
Unwritable == [type |-> "Unwritable"]

(***************************************************************************)
(* relative_to                                                             *)
(***************************************************************************)
\* The source components chained with an endless run of RootDir.
SourceComponent(sc, i) ==
    IF i <= Len(sc) THEN sc[i] ELSE [kind |-> "RootDir", name |-> <<>>]

\* skip_while over the zipped components: the first index where they differ.
RECURSIVE SkipEqual(_, _, _)
SkipEqual(tc, sc, i) ==
    IF i <= Len(tc) /\ tc[i] = SourceComponent(sc, i) THEN SkipEqual(tc, sc, i + 1) ELSE i

RemainingTarget(tc, first) == collect(<<>>, SubSeq(tc, first, Len(tc)))

\* A relative path made of every target component that differs from the source
\* component at its position.
RECURSIVE UnequalFrom(_, _, _)
UnequalFrom(tc, sc, i) ==
    IF i > Len(tc) THEN <<>>
    ELSE (IF tc[i] = SourceComponent(sc, i) THEN <<>> ELSE <<tc[i]>>)
            \o UnequalFrom(tc, sc, i + 1)
RelativeOfUnequal(tc, sc) == collect(<<>>, UnequalFrom(tc, sc, 1))

RelativeOf(tc, sc) == RemainingTarget(tc, SkipEqual(tc, sc, 1))

relative_to(source, target) == RelativeOf(components(target), components(source))

(***************************************************************************)
(* Replacement::write_to and the renderers.  Each returns the text it      *)
(* appends to the buffer.                                                  *)
(***************************************************************************)
CompassOpen == "&#8288;<div class=\"quote-grid\">\n"
CardOpen == "    <blockquote>\n        <p>\n            <div class=\"diataxis-card-header\">\n                <a href=\""
CardHref == "\">"
CardHeader == "</a>\n            </div>\n            "
CardClose == "\n        </p>\n    </blockquote>\n"
CompassClose == "</div>\n"

\* write_compass_to with the last two cards in the order their values are read.
write_compass_to_read_order(ctx) ==
    <<CompassOpen>>
    \o <<CardOpen>> \o tutorials_link(ctx.config) \o <<CardHref>>
    \o tutorials_title(ctx.config) \o <<CardHeader>>
    \o tutorials_description(ctx.config) \o <<CardClose>>
    \o <<CardOpen>> \o how_to_guides_link(ctx.config) \o <<CardHref>>
    \o how_to_guides_title(ctx.config) \o <<CardHeader>>
    \o how_to_guides_description(ctx.config) \o <<CardClose>>
    \o <<CardOpen>> \o reference_link(ctx.config) \o <<CardHref>>
    \o reference_title(ctx.config) \o <<CardHeader>>
    \o reference_description(ctx.config) \o <<CardClose>>
    \o <<CardOpen>> \o explanation_link(ctx.config) \o <<CardHref>>
    \o explanation_title(ctx.config) \o <<CardHeader>>
    \o explanation_description(ctx.config) \o <<CardClose>>
    \o <<CompassClose>>

\* Replacement::write_compass_to: the template with its twelve values.
write_compass_to(ctx) ==
    <<CompassOpen>>
    \o <<CardOpen>> \o tutorials_link(ctx.config) \o <<CardHref>>
    \o tutorials_title(ctx.config) \o <<CardHeader>>
    \o tutorials_description(ctx.config) \o <<CardClose>>
    \o <<CardOpen>> \o how_to_guides_link(ctx.config) \o <<CardHref>>
    \o how_to_guides_title(ctx.config) \o <<CardHeader>>
    \o how_to_guides_description(ctx.config) \o <<CardClose>>
    \o <<CardOpen>> \o explanation_link(ctx.config) \o <<CardHref>>
    \o explanation_title(ctx.config) \o <<CardHeader>>
    \o explanation_description(ctx.config) \o <<CardClose>>
    \o <<CardOpen>> \o reference_link(ctx.config) \o <<CardHref>>
    \o reference_title(ctx.config) \o <<CardHeader>>
    \o reference_description(ctx.config) \o <<CardClose>>
    \o <<CompassClose>>

ItemLinkOpen == "- ["
ItemLinkMid == "]("
ItemLinkClose == ")\n"
ItemPlainOpen == "- "
ItemPlainClose == "\n"

\* A list item that links every child, a draft by its name.
toc_item_linking_drafts(chapter_path, child) ==
    <<ItemLinkOpen>> \o child.name \o <<ItemLinkMid>>
    \o (IF IsSome(child.source_path)
        THEN relative_to(chapter_path, Unwrap(child.source_path)) ELSE child.name)
    \o <<ItemLinkClose>>

\* A list item that quotes the content of the child after its name.
toc_item_reading_content(chapter_path, child) ==
    <<ItemPlainOpen>> \o child.name
    \o (IF child.content # <<>> /\ child.content[1].type = "Text"
        THEN child.content[1].text ELSE <<>>)
    \o <<ItemPlainClose>>

\* write_toc_to, the closure of for_each: the list item of one child chapter.
toc_item(chapter_path, child) ==
    IF IsSome(child.source_path)
    THEN <<ItemLinkOpen>> \o child.name \o <<ItemLinkMid>>
            \o relative_to(chapter_path, Unwrap(child.source_path)) \o <<ItemLinkClose>>
    ELSE <<ItemPlainOpen>> \o child.name \o <<ItemPlainClose>>

\* A listing that descends into the chapters of each child chapter.
RECURSIVE toc_items_deep(_, _)
toc_items_deep(chapter_path, items) ==
    IF items = <<>> THEN <<>>
    ELSE (IF Head(items).kind = "Chapter"
          THEN toc_item(chapter_path, Head(items))
                \o toc_items_deep(chapter_path, Head(items).sub_items)
          ELSE <<>>) \o toc_items_deep(chapter_path, Tail(items))

\* write_toc_to, the iteration: the chapters among the sub-items, in order.
RECURSIVE toc_items(_, _)
toc_items(chapter_path, items) ==
    IF items = <<>> THEN <<>>
    ELSE (IF Head(items).kind = "Chapter" THEN toc_item(chapter_path, Head(items))
          ELSE <<>>) \o toc_items(chapter_path, Tail(items))

\* write_toc_to without the early return: a missing path is taken as empty.
write_toc_to_unguarded(ctx) ==
    toc_items(IF IsSome(ctx.chapter.source_path) THEN Unwrap(ctx.chapter.source_path)
              ELSE <<>>,
              ctx.chapter.sub_items)

\* Replacement::write_toc_to
write_toc_to(ctx) ==
    IF ~IsSome(ctx.chapter.source_path) THEN <<>>
    ELSE toc_items(Unwrap(ctx.chapter.source_path), ctx.chapter.sub_items)

\* write_to that swallows a malformed marker.
write_to_swallowing(kind, ctx) ==
    CASE kind = "Compass" -> write_compass_to(ctx)
      [] kind = "Toc" -> write_toc_to(ctx)
      [] kind = "Malformed" -> <<>>

\* Replacement::write_to
write_to(kind, ctx) ==
    CASE kind = "Compass" -> write_compass_to(ctx)
      [] kind = "Toc" -> write_toc_to(ctx)
      [] kind = "Malformed" -> pattern(kind)

(***************************************************************************)
(* DiataxisPreprocessor::preprocess_text.  The result carries the returned *)
(* string, one record per call of the replacement closure, the diagnostics *)
(* written to the error stream, and whether the expect on the chapter's    *)
(* source path panicked.                                                   *)
(***************************************************************************)
\* A closure that expects a source path for every directive.
ReplacementOfStrict(m, kind, ctx) ==
    [start |-> m.start, end |-> m.end, kind |-> kind, out |-> write_to(kind, ctx),
     panics |-> ~IsSome(ctx.chapter.source_path)]

\* The closure passed to replace_all_with, for one match.
ReplacementOf(m, kind, ctx) ==
    [start |-> m.start, end |-> m.end, kind |-> kind, out |-> write_to(kind, ctx),
     panics |-> is_malformed(kind) /\ ~IsSome(ctx.chapter.source_path)]

replacement_of(m, ctx) == ReplacementOf(m, from_pattern_index(m.pattern), ctx)

\* An assembly that resumes copying at the start of a match: the marker is kept
\* after its replacement.
RECURSIVE AssembleKeepingMarker(_, _, _)
AssembleKeepingMarker(text, from, reps) ==
    IF reps = <<>> THEN SubSeq(text, from, Len(text))
    ELSE SubSeq(text, from, Head(reps).start - 1) \o Head(reps).out
            \o AssembleKeepingMarker(text, Head(reps).start, Tail(reps))

\* replace_all_with: the text between the matches and the replacements, in order.
RECURSIVE Assemble(_, _, _)
Assemble(text, from, reps) ==
    IF reps = <<>> THEN SubSeq(text, from, Len(text))
    ELSE SubSeq(text, from, Head(reps).start - 1) \o Head(reps).out
            \o Assemble(text, Head(reps).end, Tail(reps))

\* The closure calls made: all of them, or those up to the first that panics.
RECURSIVE UntilPanic(_)
UntilPanic(reps) ==
    IF reps = <<>> THEN <<>>
    ELSE IF Head(reps).panics THEN <<Head(reps)>>
    ELSE <<Head(reps)>> \o UntilPanic(Tail(reps))

MalformedWarning == "Warning: malformed '{{#diataxis ...}}' expression in "

\* A scan that prints nothing.
NoWarnings(made, chapter) == <<>>

\* The lines printed by the calls made.
RECURSIVE Warnings(_, _)
Warnings(made, chapter) ==
    IF made = <<>> THEN <<>>
    ELSE (IF is_malformed(Head(made).kind) /\ ~Head(made).panics
          THEN << <<MalformedWarning, Unwrap(chapter.source_path)>> >> ELSE <<>>)
         \o Warnings(Tail(made), chapter)

TextResult(text, chapter, reps, made) ==
    [text |-> text,
     ret |-> Assemble(text, 1, reps),
     matches |-> made,
     diagnostics |-> Warnings(made, chapter),
     panicked |-> made # <<>> /\ made[Len(made)].panics]

Replacements(text, chapter, reps) == TextResult(text, chapter, reps, UntilPanic(reps))

ReplaceAll(text, chapter, ctx, ms) ==
    Replacements(text, chapter, [i \in DOMAIN ms |-> replacement_of(ms[i], ctx)])

\* A scan that scans what it has returned once more.
RescanOf(first, chapter, ctx) ==
    [first EXCEPT !.ret = ReplaceAll(first.ret, chapter, ctx, FindIter(first.ret, 1)).ret]
preprocess_text_rescanning(text, cfg, chapter) ==
    RescanOf(ReplaceAll(text, chapter, [config |-> cfg, chapter |-> chapter], FindIter(text, 1)),
             chapter, [config |-> cfg, chapter |-> chapter])

preprocess_text(text, cfg, chapter) ==
    ReplaceAll(text, chapter, [config |-> cfg, chapter |-> chapter], FindIter(text, 1))

(***************************************************************************)
(* DiataxisPreprocessor::preprocess_chapter, the rewrite of the content.   *)
(* The events are consumed in order by the serializer, each Text event     *)
(* going through preprocess_text; a panic in one call ends the process.    *)
(***************************************************************************)
\* The preprocess_text calls made: those of the Text events, in order, up to
\* the first that panics.
RECURSIVE CallsMade(_, _)
CallsMade(results, i) ==
    IF i > Len(results) THEN <<>>
    ELSE IF results[i] = None THEN CallsMade(results, i + 1)
    ELSE IF Unwrap(results[i]).panicked THEN results[i]
    ELSE results[i] \o CallsMade(results, i + 1)

\* The first event the serializer fails on, from i on; past the end if none.
RECURSIVE FirstUnwritable(_, _)
FirstUnwritable(content, i) ==
    IF i > Len(content) THEN i
    ELSE IF content[i].type = "Unwritable" THEN i
    ELSE FirstUnwritable(content, i + 1)

\* The parser is mapped lazily: the serializer pulls the events in order and
\* stops at the first it fails on.
Pulled(content, i) == i < FirstUnwritable(content, 1)

CmarkError == << <<"cmark: formatting failed">> >>

\* preprocess_chapter, line 37: cmark(parser, &mut new_content)?
cmark(content) ==
    IF FirstUnwritable(content, 1) <= Len(content) THEN Err(CmarkError) ELSE Ok(content)

ContentResult(content, results, made) ==
    [new_content |-> [i \in DOMAIN content |->
                        IF IsSome(results[i]) THEN Text(Unwrap(results[i]).ret)
                        ELSE content[i]],
     calls |-> made,
     panicked |-> made # <<>> /\ made[Len(made)].panicked,
     serialized |-> cmark(content)]

ContentOf(content, results) == ContentResult(content, results, CallsMade(results, 1))

\* A rewrite that scans the code spans as well as the text events.
preprocess_content_scanning_code(chapter, cfg) ==
    ContentOf(chapter.content,
              [i \in DOMAIN chapter.content |->
                  IF chapter.content[i].type \in {"Text", "Code"} /\ Pulled(chapter.content, i)
                  THEN Some(preprocess_text(chapter.content[i].text, cfg, chapter))
                  ELSE None])

\* A rewrite that leaves the text of code blocks alone.
InCodeBlock(content, i) ==
    \E j \in 1..(i - 1) :
        /\ content[j] = Start("CodeBlock")
        /\ \A k \in (j + 1)..(i - 1) : content[k] # End("CodeBlock")
preprocess_content_skipping_code_blocks(chapter, cfg) ==
    ContentOf(chapter.content,
              [i \in DOMAIN chapter.content |->
                  IF /\ chapter.content[i].type = "Text"
                     /\ ~InCodeBlock(chapter.content, i)
                     /\ Pulled(chapter.content, i)
                  THEN Some(preprocess_text(chapter.content[i].text, cfg, chapter))
                  ELSE None])

\* preprocess_chapter, lines 31-38: the text events are rewritten, the others
\* are kept.
preprocess_content(chapter, cfg) ==
    ContentOf(chapter.content,
              [i \in DOMAIN chapter.content |->
                  IF chapter.content[i].type = "Text" /\ Pulled(chapter.content, i)
                  THEN Some(preprocess_text(chapter.content[i].text, cfg, chapter))
                  ELSE None])

\* The item of a tree at an index path, and the tree with one content replaced.
RECURSIVE ItemAt(_, _)
ItemAt(items, path) ==
    IF Len(path) = 1 THEN items[path[1]]
    ELSE ItemAt(items[path[1]].sub_items, Tail(path))

\* A rewrite that stores the content and loses the chapter's source path.
RECURSIVE SetContentLosingPath(_, _, _)
SetContentLosingPath(items, path, content) ==
    [items EXCEPT ![path[1]] =
        IF Len(path) = 1 THEN [@ EXCEPT !.content = content, !.source_path = None]
        ELSE [@ EXCEPT !.sub_items = SetContentLosingPath(@, Tail(path), content)]]

RECURSIVE SetContent(_, _, _)
SetContent(items, path, content) ==
    [items EXCEPT ![path[1]] =
        IF Len(path) = 1 THEN [@ EXCEPT !.content = content]
        ELSE [@ EXCEPT !.sub_items = SetContent(@, Tail(path), content)]]

\* A walk that goes on to the first item only.
FirstChildPath(path, items) == IF items = <<>> THEN <<>> ELSE <<path \o <<1>>>>

\* The items walked next, in order: the loops of run and preprocess_chapter.
ChildPaths(path, items) == [i \in DOMAIN items |-> path \o <<i>>]

RECURSIVE Diagnostics(_)
Diagnostics(made) ==
    IF made = <<>> THEN <<>> ELSE Head(made).diagnostics \o Diagnostics(Tail(made))

(***************************************************************************)
(* The state machine of DiataxisPreprocessor::run.                         *)
(*   raw     ctx.config.get_preprocessor("diataxis"), an Option<Table>     *)
(*   book    the book being rewritten in place                             *)
(*   config  the resolved Config                                           *)
(*   pc      start, walk, done (Ok returned), failed (Err returned),       *)
(*           panicked                                                      *)
(*   err     the error returned                                            *)
(*   stack   the index paths of the items still to visit, next one first   *)
(*   stderr  the diagnostics printed                                       *)
(*   calls   the preprocess_text calls of the chapter rewritten last       *)
(*   input   the book run was called with                                  *)
(*   rewritten  the index paths of the chapters whose content was stored   *)
(* and, for the command-line program that calls run:                       *)
(*   args       the parsed command line                                    *)
(*   stdin      what the standard input holds                              *)
(*   stdout     whether the standard output can be written, and the book   *)
(*              written to it                                              *)
(*   exit_code  the exit code, once the process has ended                  *)
(*   files      book.toml and the stylesheet on disk                       *)
(*   runs       the number of invocations so far                           *)
(***************************************************************************)
Configured(r) ==
    IF r.ok
    THEN /\ config' = r.val
         /\ pc' = "walk"
         /\ stack' = ChildPaths(<<>>, book.sections)
         /\ err' = err
    ELSE /\ pc' = "failed"
         /\ err' = r.err
         /\ UNCHANGED <<config, stack>>

\* run, lines 86-92: resolve the configuration.
RunConfig ==
    /\ pc = "start"
    /\ Configured(IF IsSome(raw) THEN Config_new(Unwrap(raw)) ELSE Ok(ConfigDefault))
    /\ UNCHANGED <<raw, input, book, stderr, calls, rewritten>>
    /\ UNCHANGED process

\* A rewrite that turns the panic of a scan into an error returned by run.
RewrittenOrFailed(path, item, r) ==
    /\ calls' = [i \in DOMAIN r.calls |-> [chapter |-> path] @@ r.calls[i]]
    /\ stderr' = stderr \o Diagnostics(r.calls)
    /\ IF r.panicked
       THEN /\ pc' = "failed"
            /\ UNCHANGED <<book, stack, rewritten, err>>
       ELSE IF ~r.serialized.ok
       THEN /\ pc' = "failed"
            /\ err' = r.serialized.err
            /\ UNCHANGED <<book, stack, rewritten>>
       ELSE /\ book' = [book EXCEPT !.sections = SetContent(@, path, r.new_content)]
            /\ stack' = ChildPaths(path, item.sub_items) \o Tail(stack)
            /\ rewritten' = Append(rewritten, path)
            /\ pc' = pc
            /\ err' = err

\* preprocess_chapter: the content is scanned and stored and the sub-items
\* are walked next; a panic of the scan ends the run where it stands, and an
\* error of the serializer is returned through preprocess_bookitem and run
\* before the content is stored.
Rewritten(path, item, r) ==
    /\ calls' = [i \in DOMAIN r.calls |-> [chapter |-> path] @@ r.calls[i]]
    /\ stderr' = stderr \o Diagnostics(r.calls)
    /\ IF r.panicked
       THEN /\ pc' = "panicked"
            /\ UNCHANGED <<book, stack, rewritten, err>>
       ELSE IF ~r.serialized.ok
       THEN /\ pc' = "failed"
            /\ err' = r.serialized.err
            /\ UNCHANGED <<book, stack, rewritten>>
       ELSE /\ book' = [book EXCEPT !.sections = SetContent(@, path, r.new_content)]
            /\ stack' = ChildPaths(path, item.sub_items) \o Tail(stack)
            /\ rewritten' = Append(rewritten, path)
            /\ pc' = pc
            /\ err' = err

Visited(path, item) ==
    IF item.kind # "Chapter"
    THEN /\ stack' = Tail(stack)
         /\ calls' = <<>>
         /\ UNCHANGED <<book, pc, stderr, rewritten, err>>
    ELSE Rewritten(path, item, preprocess_content(item, config))

\* preprocess_bookitem on the next item of the walk; a chapter is rewritten
\* and its sub-items are visited next, in order.
PreprocessBookitem ==
    /\ pc = "walk"
    /\ stack # <<>>
    /\ Visited(Head(stack), ItemAt(book.sections, Head(stack)))
    /\ UNCHANGED <<raw, input, config>>
    /\ UNCHANGED process

\* run, line 98: every section has been walked.
RunReturn ==
    /\ pc = "walk"
    /\ stack = <<>>
    /\ pc' = "done"
    /\ UNCHANGED <<raw, input, book, config, err, stack, stderr, calls, rewritten>>
    /\ UNCHANGED process

Next == RunConfig \/ PreprocessBookitem \/ RunReturn

(***************************************************************************)
(* The command-line program, bin/mdbook-diataxis/main.rs.                  *)
(*   pc  main, check_version, then the positions of run, then exited       *)
(***************************************************************************)
SUCCESS == "SUCCESS"
FAILURE == "FAILURE"

\* A renderer name is a sequence of characters.
HtmlName == <<"h", "t", "m", "l">>

\* A capability query that ignores case and spaces.
LowerOf(ch) ==
    CASE ch = "H" -> "h" [] ch = "T" -> "t" [] ch = "M" -> "m" [] ch = "L" -> "l"
      [] OTHER -> ch
NotSpace(ch) == ch # " "
supports_renderer_ignoring_case(renderer) ==
    [i \in DOMAIN SelectSeq(renderer, NotSpace) |->
        LowerOf(SelectSeq(renderer, NotSpace)[i])] = HtmlName

\* DiataxisPreprocessor::supports_renderer
supports_renderer(renderer) == renderer = HtmlName

\* The process ends with an exit code.
Exited(code) ==
    /\ exit_code' = Some(code)
    /\ pc' = "exited"

\* main, line 18, and run_supports_command.
RunSupportsCommand ==
    /\ pc = "main"
    /\ args.command = "supports"
    /\ Exited(IF supports_renderer(args.renderer) THEN SUCCESS ELSE FAILURE)
    /\ UNCHANGED <<raw, input, book, config, err, stack, stderr, calls, rewritten,
                   args, stdin, stdout, files, runs>>

\* An exit code that reports success whatever the result.
exit_of_any(result) == SUCCESS

\* preprocess, lines 44-50: the exit code of a result.
exit_of(result) == IF result.ok THEN SUCCESS ELSE FAILURE

\* preprocess, lines 46-49: the error is printed and the process fails.
PreprocessErr(e) ==
    /\ stderr' = Append(stderr, e[1])
    /\ Exited(exit_of(Err(e)))

\* What the standard input holds: JSON of a context and a book, or not.
Json(preprocessor, mdbook_version, content) ==
    [parses |-> TRUE, preprocessor |-> preprocessor, mdbook_version |-> mdbook_version,
     book |-> content]
Unparsable ==
    [parses |-> FALSE, preprocessor |-> None,
     mdbook_version |-> [valid |-> FALSE, matches |-> FALSE], book |-> [sections |-> <<>>]]

\* CmdPreprocessor::parse_input: the context and the book, or an error.
parse_input(reader) ==
    IF ~reader.parses THEN Err(<< <<"Unable to parse the input">> >>)
    ELSE Ok(reader)

Parsed(r) ==
    IF r.ok
    THEN /\ raw' = r.val.preprocessor
         /\ book' = r.val.book
         /\ input' = r.val.book
         /\ pc' = "check_version"
         /\ UNCHANGED <<stderr, exit_code>>
    ELSE /\ PreprocessErr(r.err)
         /\ UNCHANGED <<raw, book, input>>

\* main, line 20, and preprocess_impl, line 56.
ParseInput ==
    /\ pc = "main"
    /\ args.command = "preprocess"
    /\ Parsed(parse_input(stdin))
    /\ UNCHANGED <<config, err, stack, calls, rewritten, args, stdin, stdout, files, runs>>

VersionWarning == "Warning: The plugin was build against another version of mdbook"

\* A version check that refuses a version the requirement does not match.
check_version_strict(mdbook_version) ==
    IF ~mdbook_version.valid THEN Err(<< <<"cannot parse the version">> >>)
    ELSE IF ~mdbook_version.matches THEN Err(<< <<VersionWarning>> >>)
    ELSE Ok(<<>>)

\* check_version: Version::parse fails on a string that is no version; a
\* version the requirement does not match is warned of.
check_version(mdbook_version) ==
    IF ~mdbook_version.valid THEN Err(<< <<"cannot parse the version">> >>)
    ELSE Ok(IF mdbook_version.matches THEN <<>> ELSE << <<VersionWarning>> >>)

Checked(r) ==
    IF r.ok
    THEN /\ stderr' = stderr \o r.val
         /\ pc' = "start"
         /\ UNCHANGED exit_code
    ELSE PreprocessErr(r.err)

\* preprocess_impl, line 57.
CheckVersion ==
    /\ pc = "check_version"
    /\ Checked(check_version(stdin.mdbook_version))
    /\ UNCHANGED <<raw, input, book, config, err, stack, calls, rewritten,
                   args, stdin, stdout, files, runs>>

\* serde_json::to_writer on the standard output.
to_writer(out, value) ==
    IF out.open THEN Ok([out EXCEPT !.written = Some(value)])
    ELSE Err(<< <<"cannot write the book">> >>)

Written(r) ==
    IF r.ok
    THEN /\ stdout' = r.val
         /\ Exited(exit_of(r))
         /\ UNCHANGED stderr
    ELSE /\ PreprocessErr(r.err)
         /\ UNCHANGED stdout

\* preprocess_impl, lines 59-61, after run has returned the book.
WriteBook ==
    /\ pc = "done"
    /\ Written(to_writer(stdout, book))
    /\ UNCHANGED <<raw, input, book, config, err, stack, calls, rewritten,
                   args, stdin, files, runs>>

\* preprocess_impl, line 59, after run has returned an error.
RunFailed ==
    /\ pc = "failed"
    /\ PreprocessErr(err)
    /\ UNCHANGED <<raw, input, book, config, err, stack, calls, rewritten,
                   args, stdin, stdout, files, runs>>

\* A panic inside run unwinds out of main: the process ends without either
\* exit code of the program.
Panicked ==
    /\ pc = "panicked"
    /\ Exited("PANIC")
    /\ UNCHANGED <<raw, input, book, config, err, stack, stderr, calls, rewritten,
                   args, stdin, stdout, files, runs>>

(***************************************************************************)
(* The install command, bin/mdbook-diataxis/install.rs.                    *)
(*                                                                         *)
(* book.toml is missing, holds text that is no TOML, or holds a document:  *)
(* a table of items, an item being a table, an array or another value.     *)
(* A path given on the command line is an OsString: besides the symbols of *)
(* a path string it may hold InvalidByte, a byte that is no UTF-8.         *)
(***************************************************************************)
InvalidByte == "<FF>"
ReplacementCharacter == "<U+FFFD>"

\* Path::to_string_lossy: every byte that is no UTF-8 becomes U+FFFD.
to_string_lossy(p) ==
    [i \in DOMAIN p |-> IF p[i] = InvalidByte THEN ReplacementCharacter ELSE p[i]]

\* str == OsStr, lines 72-76: the bytes of the string are those of the path.
\* A string never holds an invalid byte.
EntryIsPath(entry, path) == entry.type = "String" /\ entry.val = path

ArrayValue(entries) == [type |-> "Array", val |-> entries]

\* implicit_table: a table that prints no header of its own.
implicit_table == [type |-> "Table", val |-> EmptyTable, implicit |-> TRUE]

\* Item::Table(Table::new())
Table_new == [type |-> "Table", val |-> EmptyTable, implicit |-> FALSE]

\* impl From<InstallCmd> for InstallConfig
InstallConfig_from(cmd) ==
    [book_root_dir |-> cmd.book_root_dir,
     css_path |-> push(cmd.css_dir, <<"diataxis", Dot, "css">>)]

\* Table::entry(key).or_insert_with(default): the item, and whether the
\* closure ran.
or_insert_with(table, key, default) ==
    [item |-> IF key \in DOMAIN table THEN table[key] ELSE default,
     inserted |-> key \notin DOMAIN table]

\* The table with the item stored under the key.
Stored(table, key, item) ==
    [k \in DOMAIN table \cup {key} |-> IF k = key THEN item ELSE table[k]]

StoredIn(item, key, child) == [item EXCEPT !.val = Stored(item.val, key, child)]

\* edit_book_toml, lines 72-79: the path is pushed, lossily converted, unless
\* an entry is a string equal to it.
HasCssEntry(array, css_path) ==
    \E i \in DOMAIN array.val : EntryIsPath(array.val[i], css_path)
PushCss(array, css_path) ==
    IF HasCssEntry(array, css_path) THEN array
    ELSE ArrayValue(Append(array.val, StringValue(to_string_lossy(css_path))))

DiataxisWarning == <<"Warning: preprocessor.diataxis is not a table">>

\* edit_book_toml, lines 89-102: the document edited, whether anything was
\* inserted, and the warning printed.
EditDiataxis(doc, changed, preprocessor, diataxis) ==
    Ok([doc |-> Stored(doc, "preprocessor", StoredIn(preprocessor, "diataxis", diataxis.item)),
        changed |-> changed \/ diataxis.inserted,
        warnings |-> IF diataxis.item.type # "Table" THEN <<DiataxisWarning>> ELSE <<>>])

\* edit_book_toml, lines 81-88
EditPreprocessor(doc, changed, preprocessor) ==
    IF preprocessor.item.type # "Table"
    THEN Err(<< <<"preprocessor entry must be a table">> >>)
    ELSE EditDiataxis(doc, changed \/ preprocessor.inserted, preprocessor.item,
                      or_insert_with(preprocessor.item.val, "diataxis", Table_new))

\* edit_book_toml, lines 64-79
EditCss(cfg, doc, output, html, css) ==
    IF css.item.type # "Array"
    THEN Err(<< <<"output.html.additional-css must be an array">> >>)
    ELSE EditPreprocessor(
            Stored(doc, "output",
                   StoredIn(output.item, "html",
                            StoredIn(html.item, "additional-css",
                                     PushCss(css.item, cfg.css_path)))),
            output.inserted \/ html.inserted \/ css.inserted
                \/ ~HasCssEntry(css.item, cfg.css_path),
            or_insert_with(doc, "preprocessor", implicit_table))

\* edit_book_toml, lines 56-63
EditHtml(cfg, doc, output, html) ==
    IF html.item.type # "Table"
    THEN Err(<< <<"output.html entry must be a table">> >>)
    ELSE EditCss(cfg, doc, output, html,
                 or_insert_with(html.item.val, "additional-css", ArrayValue(<<>>)))

\* edit_book_toml, lines 48-55
EditOutput(cfg, doc, output) ==
    IF output.item.type # "Table"
    THEN Err(<< <<"output entry must be a table">> >>)
    ELSE EditHtml(cfg, doc, output,
                  or_insert_with(output.item.val, "html", implicit_table))

\* edit_book_toml, lines 43-46: book.toml is read and parsed.
edit_book_toml(cfg, book_toml) ==
    IF book_toml.state = "missing" THEN Err(<< <<"Cannot read book.toml">> >>)
    ELSE IF book_toml.state = "invalid" THEN Err(<< <<"TOML parse error">> >>)
    ELSE EditOutput(cfg, book_toml.doc,
                    or_insert_with(book_toml.doc, "output", implicit_table))

\* anyhow::Context::context: the message is put in front of the chain.
context(r, message) == IF r.ok THEN r ELSE Err(<<message>> \o r.err)

Css == <<".diataxis-card-header", ".quote-grid">>

\* write_css and write_file: the stylesheet is written under the book root.
write_css(cfg, fs) ==
    [fs EXCEPT !.css = Some([path |-> push(cfg.book_root_dir, cfg.css_path),
                             content |-> Css])]

\* edit_book_toml, lines 97-100: book.toml is written when something changed.
write_book_toml(fs, edit) ==
    IF edit.changed
    THEN [fs EXCEPT !.book_toml = [state |-> "document", doc |-> edit.doc],
                    !.book_writes = @ + 1]
    ELSE fs

\* An install that writes the stylesheet whether or not book.toml was edited.
InstalledCssFirst(cfg, r) ==
    IF r.ok
    THEN /\ files' = write_css(cfg, write_book_toml(files, r.val))
         /\ stderr' = stderr \o r.val.warnings
         /\ Exited(SUCCESS)
    ELSE /\ stderr' = stderr \o r.err
         /\ Exited(FAILURE)
         /\ files' = write_css(cfg, files)

\* install and run_install_command: the error is printed with its chain and
\* the process fails; otherwise both files are in place.
Installed(cfg, r) ==
    IF r.ok
    THEN /\ files' = write_css(cfg, write_book_toml(files, r.val))
         /\ stderr' = stderr \o r.val.warnings
         /\ Exited(SUCCESS)
    ELSE /\ stderr' = stderr \o r.err
         /\ Exited(FAILURE)
         /\ UNCHANGED files

\* main, line 19, and run_install_command.
RunInstallCommand ==
    /\ pc = "main"
    /\ args.command = "install"
    /\ Installed(InstallConfig_from(args),
                 context(edit_book_toml(InstallConfig_from(args), files.book_toml),
                         <<"cannot edit book.toml">>))
    /\ UNCHANGED <<raw, input, book, config, err, stack, calls, rewritten,
                   args, stdin, stdout, runs>>

\* The program is invoked again with the same command line and the same
\* standard input, on the files the invocations before have left.
Invoke ==
    /\ pc = "exited"
    /\ runs < MaxRuns
    /\ runs' = runs + 1
    /\ pc' = "main"
    /\ exit_code' = None
    /\ stdout' = [stdout EXCEPT !.written = None]
    /\ raw' = None
    /\ book' = [sections |-> <<>>]
    /\ input' = [sections |-> <<>>]
    /\ config' = ConfigDefault
    /\ err' = <<>>
    /\ stack' = <<>>
    /\ stderr' = <<>>
    /\ calls' = <<>>
    /\ rewritten' = <<>>
    /\ UNCHANGED <<args, stdin, files>>

NextMain ==
    \/ RunSupportsCommand
    \/ RunInstallCommand
    \/ Invoke
    \/ ParseInput \/ CheckVersion \/ RunConfig \/ PreprocessBookitem \/ RunReturn
    \/ WriteBook \/ RunFailed \/ Panicked

(***************************************************************************)
(* The inputs explored.                                                    *)
(***************************************************************************)
SeqsUpTo(S, n) == UNION {[1..k -> S] : k \in 0..n}

\* Texts: up to MaxChunks pieces, each a marker, the tail of a well-formed
\* marker, a marker cut short or a plain character.
CompassTail == SubSeq(CompassPattern, Len(MalformedPattern) + 1, Len(CompassPattern))
TocTail == SubSeq(TocPattern, Len(MalformedPattern) + 1, Len(TocPattern))
Chunks ==
    {CompassPattern, TocPattern, MalformedPattern, CompassTail, TocTail,
     SubSeq(MalformedPattern, 1, Len(MalformedPattern) - 1),
     <<"x">>, <<"{">>, <<"}">>}
Texts == {Flatten(cs) : cs \in SeqsUpTo(Chunks, MaxChunks)}

\* Link strings: every string of up to MaxLinkLen symbols.
LinkSymbols == {Sep, Dot, "README", "md", "dir", "html"}
LinkStrings == SeqsUpTo(LinkSymbols, MaxLinkLen)

\* Section tables: each field absent, a string, or a value that is no string.
Sections == <<"tutorials", "how-to-guides", "explanation", "reference">>
SectionSet == {Sections[i] : i \in DOMAIN Sections}
Fields == {"title", "description", "link"}

\* The link configured for a section, as in tests::compass::configured: a
\* README.md in a directory for tutorials, a file of its own for the others.
SampleLink(section) ==
    IF section = "tutorials" THEN <<"custom-tutorials", Sep, "README", Dot, "md">>
    ELSE <<"custom-", section, "-link", Dot, "md">>

FieldValues ==
    [section \in SectionSet |-> [key \in Fields |->
        {IntegerValue} \cup
        {IF key = "link" THEN StringValue(SampleLink(section))
         ELSE StringValue(<<"custom-", section, "-", key>>)}]]

SectionTables ==
    [section \in SectionSet |->
        UNION {{t \in [K -> UNION {FieldValues[section][k] : k \in K}] :
                    \A k \in K : t[k] \in FieldValues[section][k]} : K \in SUBSET Fields}]

SectionValues ==
    [section \in SectionSet |->
        {IntegerValue} \cup {TableValue(t) : t \in SectionTables[section]}]

\* Compass tables with at most MaxOverridden sections present.
CompassTables ==
    UNION {{t \in [K -> UNION {SectionValues[k] : k \in K}] :
                \A k \in K : t[k] \in SectionValues[k]} :
           K \in {K \in SUBSET SectionSet : Cardinality(K) <= MaxOverridden}}

\* ctx.config.get_preprocessor("diataxis"): no table, a table without compass,
\* compass that is no table, or a compass table.
RawConfigs ==
    {None, Some(EmptyTable), Some([k \in {"compass"} |-> IntegerValue])}
    \cup {Some([k \in {"compass"} |-> TableValue(t)]) : t \in CompassTables}

CustomTutorials ==
    Some([k \in {"compass"} |-> TableValue(
        [s \in {"tutorials"} |-> TableValue(
            [f \in Fields |->
                IF f = "link" THEN StringValue(SampleLink("tutorials"))
                ELSE StringValue(<<"custom-", "tutorials", "-", f>>)])])])

BadTutorials ==
    Some([k \in {"compass"} |-> TableValue(
        [s \in {"tutorials"} |-> TableValue([f \in {"title"} |-> IntegerValue])])])

\* The chapter of the unit tests tests::compass.
CompassChapter ==
    Chapter(<<"Chapter 1">>, <<Text(<<"Chapter 1">>), Text(CompassPattern)>>,
            Some(<<"chapter_1", Dot, "md">>), <<>>)

\* Trees: a part title and a root chapter with up to MaxChildren sub-items;
\* a sub-item is a separator, a part title or a chapter, with or without a
\* source path, with or without a chapter of its own.
ReadmePath == <<"a", Sep, "README", Dot, "md">>
SubContent == <<Text(<<"sub content">>)>>
GrandChild ==
    Chapter(<<"g">>, SubContent, Some(<<"a", Sep, "d", Sep, "g", Dot, "md">>), <<>>)
SubChapters ==
    {Chapter(<<"w">>, SubContent, None, <<>>),
     Chapter(<<"x">>, SubContent, None, <<GrandChild>>),
     Chapter(<<"y">>, SubContent, Some(<<"a", Sep, "y", Dot, "md">>), <<>>),
     Chapter(<<"z">>, SubContent, Some(<<"a", Sep, "d", Sep, "z", Dot, "md">>),
             <<GrandChild>>)}
SubItems == {Separator, PartTitle(<<"Part">>)} \cup SubChapters
RootContents ==
    {<<Text(<<"Contents">>), Text(TocPattern)>>,
     <<Code(TocPattern), Text(<<"see ">> \o TocPattern \o <<" and ">> \o CompassPattern)>>,
     <<Text(TocPattern \o <<"x">> \o TocPattern)>>}
RootChapters ==
    {Chapter(<<"Chapter 1">>, c, sp, subs) :
        c \in RootContents,
        sp \in {None, Some(ReadmePath), Some(<<"b", Dot, "md">>)},
        subs \in SeqsUpTo(SubItems, MaxChildren)}

InitRun ==
    /\ config = ConfigDefault
    /\ pc = "start"
    /\ err = <<>>
    /\ stack = <<>>
    /\ stderr = <<>>
    /\ calls = <<>>
    /\ rewritten = <<>>
    /\ input = book
    /\ args = [command |-> "library"]
    /\ stdin = Unparsable
    /\ stdout = [open |-> TRUE, written |-> None]
    /\ exit_code = None
    /\ files = None
    /\ runs = 0

\* Trees of every shape, under no configuration.
Init ==
    /\ raw = None
    /\ book \in {[sections |-> <<PartTitle(<<"Part">>), root>>] : root \in RootChapters}
    /\ InitRun

\* A chapter whose child has no source path and holds a malformed marker.
DraftMalformed ==
    Chapter(<<"Chapter 1">>, <<Text(<<"x">>)>>, Some(ReadmePath),
            <<Chapter(<<"w">>, <<Text(MalformedPattern)>>, None, <<>>)>>)

\* Chapters whose listing carries marker text: a child chapter named as a
\* directive, and a directive between the two halves of another in a chapter
\* without children.
MarkerChapters ==
    {Chapter(<<"Chapter 1">>, <<Text(TocPattern)>>, Some(ReadmePath),
             <<Chapter(CompassPattern, SubContent, Some(<<"a", Sep, "y", Dot, "md">>), <<>>)>>),
     Chapter(<<"Chapter 1">>, <<Text(MalformedPattern \o TocPattern \o CompassTail)>>,
             Some(ReadmePath), <<>>)}

\* Texts of every shape in one chapter, with or without a source path.
InitText ==
    /\ raw \in {None, CustomTutorials}
    /\ book \in {[sections |-> <<Chapter(<<"Chapter 1">>, <<Text(t)>>, sp,
                                        <<Chapter(<<"y">>, SubContent,
                                                  Some(<<"a", Sep, "y", Dot, "md">>), <<>>)>>)>>] :
                    t \in Texts, sp \in {None, Some(ReadmePath)}}
                \cup {[sections |-> <<chapter>>] : chapter \in MarkerChapters \cup {DraftMalformed}}
    /\ InitRun

\* Configurations of every shape, for the chapter of the compass tests.
InitConfig ==
    /\ raw \in RawConfigs
    /\ book = [sections |-> <<CompassChapter>>]
    /\ InitRun

\* Link strings of every shape, configured for one section.
InitLink ==
    /\ raw \in {Some([k \in {"compass"} |-> TableValue(
                    [s \in {section} |-> TableValue(
                        [f \in {"link"} |-> StringValue(l)])])]) :
                    l \in LinkStrings, section \in {"explanation"}}
    /\ book = [sections |-> <<CompassChapter>>]
    /\ InitRun

\* Source paths D/f and target paths D/r1/../rk over a few directories, in a
\* chapter whose text is a table-of-contents directive.
Dirs ==
    {<<>>, <<Dot, Sep>>, <<"a", Sep>>, <<"a", Sep, "b", Sep>>, <<Sep, "a", Sep>>,
     <<Dot, Sep, "a", Sep>>}
Files == {ReadmeMd, <<"c", Dot, "md">>}
Rests ==
    {<<"y", Dot, "md">>, <<"d", Sep, "z", Dot, "md">>, <<"d", Sep, "c", Dot, "md">>,
     <<"d", Sep, "e", Sep, "README", Dot, "md">>}
SourcePaths == {d \o f : d \in Dirs, f \in Files}
TargetPaths == {d \o r : d \in Dirs, r \in Rests}
InitPaths ==
    /\ raw = None
    /\ book \in {[sections |-> <<Chapter(<<"Chapter 1">>, <<Text(TocPattern)>>, Some(source),
                                        <<Chapter(<<"t">>, SubContent, Some(target), <<>>)>>)>>] :
                    source \in SourcePaths, target \in TargetPaths}
    /\ InitRun

\* Event streams of every shape in one chapter, with or without a source path.
Events ==
    {Text(TocPattern), Text(CompassPattern), Text(<<"x">>), Code(TocPattern),
     HtmlEvent(CompassPattern), Start("Heading"), End("Heading"), SoftBreak}
InitEvents ==
    /\ raw = None
    /\ book \in {[sections |-> <<Chapter(<<"Chapter 1">>, content, sp,
                                        <<Chapter(<<"y">>, SubContent,
                                                  Some(<<"a", Sep, "y", Dot, "md">>), <<>>)>>)>>] :
                    content \in SeqsUpTo(Events, MaxEvents), sp \in {None, Some(ReadmePath)}}
    /\ InitRun

\* Event streams with code blocks, code spans and HTML that hold directives,
\* in one chapter with a child, with or without a source path.
BlockEvents ==
    {Start("CodeBlock"), End("CodeBlock"), Text(TocPattern), Text(CompassPattern),
     Code(TocPattern), HtmlEvent(CompassPattern), InlineHtml(TocPattern)}
InitBlocks ==
    /\ raw = None
    /\ book \in {[sections |-> <<Chapter(<<"Chapter 1">>, content, sp,
                                        <<Chapter(<<"y">>, SubContent,
                                                  Some(<<"a", Sep, "y", Dot, "md">>), <<>>)>>)>>] :
                    content \in SeqsUpTo(BlockEvents, MaxEvents),
                    sp \in {None, Some(<<"a", Sep, "README", Dot, "md">>)}}
    /\ InitRun

\* A configuration and children whose strings are directive markers: the
\* title, description and link of the tutorials section, and the names of
\* a child with a source path and of a child without.
MarkerConfig ==
    Some([k \in {"compass"} |-> TableValue(
        [s \in {"tutorials"} |-> TableValue(
            [f \in {"title", "description", "link"} |->
                CASE f = "title" -> StringValue(TocPattern)
                  [] f = "description" -> StringValue(CompassPattern)
                  [] f = "link" -> StringValue(MalformedPattern \o <<Sep, "dir", Dot, "md">>)])])])
InitMarkers ==
    /\ raw = MarkerConfig
    /\ book \in {[sections |-> <<Chapter(<<"Chapter 1">>, <<Text(t)>>,
                                        Some(<<"a", Sep, "README", Dot, "md">>),
                                        <<Chapter(CompassPattern, SubContent,
                                                  Some(<<"a", Sep, "y", Dot, "md">>), <<>>),
                                          Chapter(MalformedPattern, SubContent, None, <<>>)>>)>>] :
                    t \in Texts}
    /\ InitRun

\* Trees in which the serializer fails on some chapters: a chapter with a
\* child, and a chapter after them.
SerializeEvents == {Text(TocPattern), Text(MalformedPattern), Unwritable}
SerializeBooks ==
    {[sections |-> <<Chapter(<<"Chapter 1">>, first, sp,
                             <<Chapter(<<"y">>, second,
                                       Some(<<"a", Sep, "y", Dot, "md">>), <<>>)>>),
                     Chapter(<<"Chapter 2">>, third, Some(<<"b", Dot, "md">>), <<>>)>>] :
        first \in SeqsUpTo(SerializeEvents, MaxEvents),
        sp \in {None, Some(<<"a", Sep, "README", Dot, "md">>)},
        second \in {<<Text(<<"x">>)>>, <<Unwritable>>},
        third \in {<<Text(TocPattern)>>, <<Unwritable>>}}
InitSerialize ==
    /\ raw = None
    /\ book \in SerializeBooks
    /\ InitRun

\* Invocations of the program: capability queries for renderer names near
\* 'html', and preprocess runs on every kind of standard input.
Renderers ==
    {HtmlName, <<"H", "T", "M", "L">>, <<"H", "t", "m", "l">>, <<" ", "h", "t", "m", "l">>,
     <<"h", "t", "m", "l", " ">>, <<"h", "t", "m">>, <<"h", "t", "m", "l", "5">>, <<>>,
     <<"e", "p", "u", "b">>, <<"m", "a", "r", "k", "d", "o", "w", "n">>}
Versions == {[valid |-> v, matches |-> m] : v, m \in BOOLEAN} \ {[valid |-> FALSE, matches |-> TRUE]}
MainBooks ==
    {[sections |-> <<CompassChapter>>],
     [sections |-> <<PartTitle(<<"Part">>),
                     Chapter(<<"Chapter 1">>, <<Text(TocPattern)>>, Some(ReadmePath),
                             <<Chapter(<<"y">>, SubContent,
                                       Some(<<"a", Sep, "y", Dot, "md">>), <<>>)>>)>>],
     [sections |-> <<DraftMalformed>>],
     [sections |-> <<Chapter(<<"Chapter 1">>, <<Text(TocPattern)>>, Some(ReadmePath), <<>>),
                     Chapter(<<"Chapter 2">>, <<Unwritable>>, Some(<<"b", Dot, "md">>), <<>>)>>]}
Stdins ==
    {Unparsable}
    \cup {Json(r, v, b) :
            r \in {None, Some(EmptyTable), CustomTutorials, BadTutorials},
            v \in Versions, b \in MainBooks}

\* Install commands: the default directories, and a stylesheet directory
\* whose name is no UTF-8.
CssDirs == {<<"theme", Sep, "css">>, <<"theme", Sep, InvalidByte>>}
InstallCommands ==
    {[command |-> "install", book_root_dir |-> <<Dot>>, css_dir |-> d] : d \in CssDirs}

\* Documents of book.toml: each of output, output.html, additional-css,
\* preprocessor and preprocessor.diataxis absent, of another type, or there;
\* additional-css holds up to MaxCss entries.
OtherItem == IntegerValue
Parsed_table(t) == [type |-> "Table", val |-> t, implicit |-> FALSE]
CssEntries ==
    {StringValue(<<"theme", Sep, "css", Sep, "diataxis", Dot, "css">>),
     StringValue(<<"theme", Sep, ReplacementCharacter, Sep, "diataxis", Dot, "css">>),
     StringValue(<<"other", Dot, "css">>), OtherItem}
Optional(key, items) ==
    {EmptyTable} \cup {[k \in {key} |-> item] : item \in items}
HtmlItems ==
    {OtherItem}
    \cup {Parsed_table(t) :
            t \in Optional("additional-css",
                           {OtherItem} \cup {ArrayValue(es) : es \in SeqsUpTo(CssEntries, MaxCss)})}
OutputItems == {OtherItem} \cup {Parsed_table(t) : t \in Optional("html", HtmlItems)}
PreprocessorItems ==
    {OtherItem}
    \cup {Parsed_table(t) : t \in Optional("diataxis", {OtherItem, Table_new})}
Documents ==
    {Stored(o, "preprocessor", p["preprocessor"]) :
        o \in Optional("output", OutputItems) \ {EmptyTable},
        p \in Optional("preprocessor", PreprocessorItems) \ {EmptyTable}}
    \cup Optional("output", OutputItems) \cup Optional("preprocessor", PreprocessorItems)
FileSystems ==
    {[book_toml |-> b, css |-> None, book_writes |-> 0] :
        b \in {[state |-> "missing", doc |-> EmptyTable],
               [state |-> "invalid", doc |-> EmptyTable]}
              \cup {[state |-> "document", doc |-> d] : d \in Documents}}

Commands ==
    {[command |-> "supports", renderer |-> r] : r \in Renderers}
    \cup {[command |-> "preprocess"]}
    \cup InstallCommands
InitMain ==
    /\ args \in Commands
    /\ stdin \in IF args.command = "preprocess" THEN Stdins ELSE {Unparsable}
    /\ stdout \in IF args.command = "preprocess"
                  THEN {[open |-> o, written |-> None] : o \in BOOLEAN}
                  ELSE {[open |-> TRUE, written |-> None]}
    /\ exit_code = None
    /\ files \in IF args.command = "install" THEN FileSystems ELSE {None}
    /\ runs = 1
    /\ pc = "main"
    /\ raw = None
    /\ book = [sections |-> <<>>]
    /\ input = book
    /\ config = ConfigDefault
    /\ err = <<>>
    /\ stack = <<>>
    /\ stderr = <<>>
    /\ calls = <<>>
    /\ rewritten = <<>>

Spec == Init /\ [][Next]_vars
SpecMain == InitMain /\ [][NextMain]_vars
SpecEvents == InitEvents /\ [][Next]_vars
SpecSerialize == InitSerialize /\ [][Next]_vars
SpecBlocks == InitBlocks /\ [][Next]_vars
SpecMarkers == InitMarkers /\ [][Next]_vars
SpecPaths == InitPaths /\ [][Next]_vars
SpecText == InitText /\ [][Next]_vars
SpecConfig == InitConfig /\ [][Next]_vars
SpecLink == InitLink /\ [][Next]_vars

(***************************************************************************)
(* Properties.                                                             *)
(***************************************************************************)
Range(s) == {s[i] : i \in DOMAIN s}

\* The chapter a preprocess_text call was made for.
ChapterOf(c) == ItemAt(book.sections, c.chapter)

\* C1: every match that starts where a full well-formed marker occurs is
\* classified as that directive, Compass or TableOfContents, never Malformed.
C1_LongestMatchWins ==
    \A c \in Range(calls) : \A m \in Range(c.matches) :
        /\ OccursAt(c.text, m.start, CompassPattern) => m.kind = "Compass"
        /\ OccursAt(c.text, m.start, TocPattern) => m.kind = "Toc"

\* A text scanned with both well-formed markers matched, the first of them
\* after other text.
C1_Witness ==
    \E c \in Range(calls) : \E m, n \in Range(c.matches) :
        /\ m.start > 1
        /\ OccursAt(c.text, m.start, CompassPattern) /\ m.kind = "Compass"
        /\ OccursAt(c.text, n.start, TocPattern) /\ n.kind = "Toc"

\* A text with an occurrence of the malformed marker and no occurrence of a
\* well-formed one.
OnlyMalformed(text) ==
    /\ \E i \in 1..Len(text) : OccursAt(text, i, MalformedPattern)
    /\ \A i \in 1..Len(text) :
        ~OccursAt(text, i, CompassPattern) /\ ~OccursAt(text, i, TocPattern)

\* C2: for a text whose only marker occurrences are malformed ones, the string
\* preprocess_text returns is the input text, and it is the text the chapter
\* is left with.
C2_MalformedVerbatim ==
    \A c \in Range(calls) :
        OnlyMalformed(c.text) /\ ~c.panicked =>
            /\ c.ret = c.text
            /\ \E i \in DOMAIN ChapterOf(c).content : ChapterOf(c).content[i] = Text(c.text)

\* A text returned with two malformed markers in it and text after them.
C2_Witness ==
    \E c \in Range(calls) :
        /\ OnlyMalformed(c.text) /\ ~c.panicked
        /\ Len(c.matches) = 2
        /\ c.matches[2].end <= Len(c.text)

\* The built-in defaults, as tabulated in the specification.
DefaultValue(section, field) ==
    CASE section = "tutorials" ->
            (CASE field = "title" -> <<"Tutorials">>
               [] field = "description" -> <<"Hands-on lessons">>
               [] field = "link" -> <<Dot, Sep, "tutorials", Sep, "index", Dot, "html">>)
      [] section = "how-to-guides" ->
            (CASE field = "title" -> <<"How-to guides">>
               [] field = "description" -> <<"Step-by-step instructions for common tasks">>
               [] field = "link" -> <<Dot, Sep, "how-to", Sep, "index", Dot, "html">>)
      [] section = "reference" ->
            (CASE field = "title" -> <<"Reference">>
               [] field = "description" -> <<"Technical information">>
               [] field = "link" -> <<Dot, Sep, "reference-materials", Sep, "index", Dot, "html">>)
      [] section = "explanation" ->
            (CASE field = "title" -> <<"Explanation">>
               [] field = "description" -> <<"Long-form discussion of key topics">>
               [] field = "link" -> <<Dot, Sep, "explanations", Sep, "index", Dot, "html">>)

\* The override a resolved configuration holds for a field of a section.
ResolvedSection(cfg, section) ==
    CASE section = "tutorials" -> cfg.tutorials
      [] section = "how-to-guides" -> cfg.how_to_guides
      [] section = "reference" -> cfg.reference
      [] section = "explanation" -> cfg.explanation
ResolvedOverride(cfg, section, field) ==
    CASE field = "title" -> ResolvedSection(cfg, section).title_override
      [] field = "description" -> ResolvedSection(cfg, section).description_override
      [] field = "link" -> ResolvedSection(cfg, section).link_override
Resolved(cfg, section, field) ==
    IF IsSome(ResolvedOverride(cfg, section, field))
    THEN Unwrap(ResolvedOverride(cfg, section, field))
    ELSE DefaultValue(section, field)

\* The markup of one card.
Card(link, title, description) ==
    <<CardOpen>> \o link \o <<CardHref>> \o title \o <<CardHeader>> \o description
    \o <<CardClose>>
ResolvedCard(cfg, section) ==
    Card(Resolved(cfg, section, "link"), Resolved(cfg, section, "title"),
         Resolved(cfg, section, "description"))

\* The positions of a symbol in a text, in increasing order.
RECURSIVE PositionsFrom(_, _, _)
PositionsFrom(text, sym, i) ==
    IF i > Len(text) THEN <<>>
    ELSE (IF text[i] = sym THEN <<i>> ELSE <<>>) \o PositionsFrom(text, sym, i + 1)
Positions(text, sym) == PositionsFrom(text, sym, 1)

CompassMatches == {m \in UNION {Range(c.matches) : c \in Range(calls)} : m.kind = "Compass"}

\* C3: a Compass directive renders exactly four cards, in the order tutorials,
\* how-to-guides, explanation, reference; each card holds the resolved link,
\* title and description of its own section.
C3_FourCardsInOrder ==
    \A m \in CompassMatches :
        /\ Len(Positions(m.out, CardOpen)) = 4
        /\ m.out = <<CompassOpen>>
                   \o ResolvedCard(config, "tutorials")
                   \o ResolvedCard(config, "how-to-guides")
                   \o ResolvedCard(config, "explanation")
                   \o ResolvedCard(config, "reference")
                   \o <<CompassClose>>

\* A compass rendered with explanation overridden and reference left at its
\* defaults.
C3_Witness ==
    /\ CompassMatches # {}
    /\ IsSome(config.explanation.title_override)
    /\ IsSome(config.explanation.link_override)
    /\ config.reference = SectionConfigDefault

\* The value rendered in card i of a compass for a field.
Between(text, from, to) == SubSeq(text, from + 1, to - 1)
Rendered(out, i, field) ==
    CASE field = "link" ->
            Between(out, Positions(out, CardOpen)[i], Positions(out, CardHref)[i])
      [] field = "title" ->
            Between(out, Positions(out, CardHref)[i], Positions(out, CardHeader)[i])
      [] field = "description" ->
            Between(out, Positions(out, CardHeader)[i], Positions(out, CardClose)[i])

\* Whether the raw configuration supplies a field of a section, and its value.
HasTable(table, key) == key \in DOMAIN table /\ table[key].type = "Table"
Supplied(section, field) ==
    /\ IsSome(raw)
    /\ HasTable(Unwrap(raw), "compass")
    /\ HasTable(Unwrap(raw)["compass"].val, section)
    /\ field \in DOMAIN Unwrap(raw)["compass"].val[section].val
RawField(section, field) == Unwrap(raw)["compass"].val[section].val[field]

\* C4: every field of every section is rendered from that field's own
\* override when one is supplied (the string for a title or description, the
\* link override made of the string for a link), and from the built-in
\* default otherwise, whatever the other fields and sections are; a missing
\* preprocessor, compass or section table leaves the defaults.
C4_OverrideOrDefault ==
    \A m \in CompassMatches : \A i \in DOMAIN Sections : \A field \in Fields :
        Rendered(m.out, i, field) =
            IF ~Supplied(Sections[i], field) THEN DefaultValue(Sections[i], field)
            ELSE IF field = "link" THEN link_path(RawField(Sections[i], field).val)
            ELSE RawField(Sections[i], field).val

\* A compass rendered with one field of one section supplied, and one with a
\* whole section supplied beside a section without a table.
C4_Witness ==
    /\ CompassMatches # {}
    /\ Supplied("how-to-guides", "description")
    /\ ~Supplied("how-to-guides", "title") /\ ~Supplied("how-to-guides", "link")
    /\ \A field \in Fields : Supplied("explanation", field)
    /\ ~Supplied("reference", "title")

\* The link configured for the explanation section, and the link rendered for
\* it in a compass (the third card).
ConfiguredLink == RawField("explanation", "link").val
RenderedLink(m) == Rendered(m.out, 3, "link")

Names == LinkSymbols \ {Sep, Dot}
EndsWith(text, suffix) ==
    /\ Len(text) >= Len(suffix)
    /\ SubSeq(text, Len(text) - Len(suffix) + 1, Len(text)) = suffix
WithoutSuffix(text, suffix) == SubSeq(text, 1, Len(text) - Len(suffix))

\* A directory prefix written plainly: nothing, the root, or a path whose last
\* piece is a name or a leading '.' followed by one separator.
PlainDir(d) ==
    \/ d \in {<<>>, <<Sep>>, <<Dot, Sep>>}
    \/ /\ Len(d) >= 2
       /\ d[Len(d)] = Sep
       /\ d[Len(d) - 1] \in Names

\* C5: a configured link whose final component is exactly README.md is
\* rendered with that component replaced by index.html, in the same directory;
\* a configured link 'foo.md' is rendered as 'foo.html', in the same directory.
C5_ReadmeAndMarkdownLinks ==
    \A m \in CompassMatches :
        /\ file_name(ConfiguredLink) = Some(ReadmeMd) =>
              /\ components(RenderedLink(m)) =
                     SubSeq(components(ConfiguredLink), 1,
                            Len(components(ConfiguredLink)) - 1)
                     \o SubSeq(components(IndexHtml), 1, 1)
              /\ EndsWith(RenderedLink(m), IndexHtml)
        /\ (/\ EndsWith(ConfiguredLink, ReadmeMd)
            /\ PlainDir(WithoutSuffix(ConfiguredLink, ReadmeMd)))
           => RenderedLink(m) = WithoutSuffix(ConfiguredLink, ReadmeMd) \o IndexHtml
        /\ \A n \in Names :
              (/\ EndsWith(ConfiguredLink, <<n, Dot, "md">>)
               /\ <<n, Dot, "md">> # ReadmeMd
               /\ PlainDir(WithoutSuffix(ConfiguredLink, <<n, Dot, "md">>)))
              => RenderedLink(m) =
                     WithoutSuffix(ConfiguredLink, <<n, Dot, "md">>) \o <<n, Dot, "html">>

\* A compass rendered from the link 'dir/README.md'.
C5_Witness ==
    /\ Supplied("explanation", "link")
    /\ ConfiguredLink = <<"dir", Sep>> \o ReadmeMd
    /\ \E m \in CompassMatches : RenderedLink(m) = <<"dir", Sep>> \o IndexHtml

\* C6 (as stated): every link override resolves to a link whose extension is
\* html, whatever string was configured.
C6_EveryLinkHtml ==
    \A m \in CompassMatches :
        Supplied("explanation", "link") => extension(RenderedLink(m)) = Some(Html)

\* C6 (what the code does): the extension is set to html exactly when the
\* link, after the README rewrite, has a final file name; a link without one
\* (empty, '..', the root) is rendered as it was configured.
C6_HtmlWhenFileName ==
    \A m \in CompassMatches :
        Supplied("explanation", "link") =>
            IF IsSome(file_name(ConfiguredLink))
            THEN extension(RenderedLink(m)) = Some(Html)
            ELSE /\ RenderedLink(m) = ConfiguredLink
                 /\ extension(RenderedLink(m)) = None

\* A compass rendered from the link '..'.
C6_Witness ==
    /\ Supplied("explanation", "link")
    /\ ConfiguredLink = <<Dot, Dot>>
    /\ \E m \in CompassMatches : RenderedLink(m) = <<Dot, Dot>>

\* The sections of the raw configuration given as tables, and the fields of
\* those that are present but not strings.
CompassTable == Unwrap(raw)["compass"].val
HasCompass == IsSome(raw) /\ HasTable(Unwrap(raw), "compass")
NonStringFields ==
    IF ~HasCompass THEN {}
    ELSE {sf \in SectionSet \X Fields :
            /\ HasTable(CompassTable, sf[1])
            /\ sf[2] \in DOMAIN CompassTable[sf[1]].val
            /\ CompassTable[sf[1]].val[sf[2]].type # "String"}
NonTableSections ==
    IF ~HasCompass THEN {}
    ELSE {section \in SectionSet :
            section \in DOMAIN CompassTable /\ CompassTable[section].type # "Table"}
FieldError(section, field) ==
    << <<"cannot parse 'compass.", section, "' table">>,
       <<"'", field, "' field must be a string">> >>

TocMatches ==
    {cm \in UNION {{[chapter |-> ChapterOf(c), call |-> c, m |-> c.matches[i]] :
                        i \in DOMAIN c.matches} : c \in Range(calls)} :
        cm.m.kind = "Toc"}

\* The lines of a listing: each ends with the end of a linked or plain item.
LineEnds == {ItemLinkClose, ItemPlainClose}
RECURSIVE LinesFrom(_, _, _)
LinesFrom(out, from, i) ==
    IF i > Len(out) THEN (IF from > Len(out) THEN <<>> ELSE <<SubSeq(out, from, Len(out))>>)
    ELSE IF out[i] \in LineEnds
    THEN <<SubSeq(out, from, i)>> \o LinesFrom(out, i + 1, i + 1)
    ELSE LinesFrom(out, from, i + 1)
Lines(out) == LinesFrom(out, 1, 1)

IsChapter(item) == item.kind = "Chapter"
ChildChapters(chapter) == SelectSeq(chapter.sub_items, IsChapter)
LinkSyntax == {ItemLinkOpen, ItemLinkMid, ItemLinkClose}

LinkedItem(name, path) == <<ItemLinkOpen>> \o name \o <<ItemLinkMid>> \o path \o <<ItemLinkClose>>
PlainItem(name) == <<ItemPlainOpen>> \o name \o <<ItemPlainClose>>

\* C8: in the listing of a chapter that has a source path, the item of a child
\* chapter with a source path is '- [name](path)', the path being the child's
\* relative to the chapter's, and the item of a child chapter without one is
\* '- name', free of link syntax; every link of a listing is the link of a
\* child chapter that has a source path.
C8_DraftChildrenNeverLinked ==
    \A cm \in TocMatches : IsSome(cm.chapter.source_path) =>
        /\ \A i \in DOMAIN Lines(cm.m.out) \cap DOMAIN ChildChapters(cm.chapter) :
              IF IsSome(ChildChapters(cm.chapter)[i].source_path)
              THEN Lines(cm.m.out)[i] =
                      LinkedItem(ChildChapters(cm.chapter)[i].name,
                                 relative_to(Unwrap(cm.chapter.source_path),
                                             Unwrap(ChildChapters(cm.chapter)[i].source_path)))
              ELSE /\ Lines(cm.m.out)[i] = PlainItem(ChildChapters(cm.chapter)[i].name)
                   /\ Range(Lines(cm.m.out)[i]) \cap LinkSyntax = {}
        /\ \A line \in Range(Lines(cm.m.out)) :
              Range(line) \cap LinkSyntax # {} =>
                  \E child \in Range(ChildChapters(cm.chapter)) :
                      /\ IsSome(child.source_path)
                      /\ line = LinkedItem(child.name,
                                           relative_to(Unwrap(cm.chapter.source_path),
                                                       Unwrap(child.source_path)))

\* The listing of a/README.md with the draft w before a/d/z.md.
C8_Witness ==
    \E cm \in TocMatches :
        /\ cm.chapter.source_path = Some(ReadmePath)
        /\ cm.m.out = PlainItem(<<"w">>)
                      \o LinkedItem(<<"z">>, <<"d", Sep, "z", Dot, "md">>)

\* The name an item shows.
ItemName(line) ==
    IF line[1] = ItemLinkOpen
    THEN Between(line, 1, Positions(line, ItemLinkMid)[1])
    ELSE Between(line, 1, Len(line))

\* C9: the listing of a chapter with a source path is made of exactly one item
\* per direct child chapter, in the order of the children; separators, part
\* titles and the chapters of the children give no item.
C9_OneItemPerDirectChild ==
    \A cm \in TocMatches : IsSome(cm.chapter.source_path) =>
        /\ Len(Lines(cm.m.out)) = Len(ChildChapters(cm.chapter))
        /\ Len(Positions(cm.m.out, ItemLinkClose)) + Len(Positions(cm.m.out, ItemPlainClose))
              = Len(ChildChapters(cm.chapter))
        /\ \A i \in DOMAIN Lines(cm.m.out) :
              /\ Lines(cm.m.out)[i][1] \in {ItemLinkOpen, ItemPlainOpen}
              /\ ItemName(Lines(cm.m.out)[i]) = ChildChapters(cm.chapter)[i].name

\* A listing of two items for a part title and two chapters that have a
\* chapter of their own, z before x.
C9_Witness ==
    \E cm \in TocMatches :
        /\ IsSome(cm.chapter.source_path)
        /\ Len(cm.chapter.sub_items) = 3
        /\ cm.chapter.sub_items[1].kind = "PartTitle"
        /\ IsChapter(cm.chapter.sub_items[2]) /\ cm.chapter.sub_items[2].name = <<"z">>
        /\ IsChapter(cm.chapter.sub_items[3]) /\ cm.chapter.sub_items[3].name = <<"x">>
        /\ Len(Lines(cm.m.out)) = 2

\* A text with every table-of-contents marker taken out.
RECURSIVE WithoutToc(_, _)
WithoutToc(text, i) ==
    IF i > Len(text) THEN <<>>
    ELSE IF OccursAt(text, i, TocPattern) THEN WithoutToc(text, i + Len(TocPattern))
    ELSE <<text[i]>> \o WithoutToc(text, i + 1)

OnlyToc(c) == \A m \in Range(c.matches) : m.kind = "Toc"

\* C10: in a chapter without a source path a table-of-contents directive is
\* replaced by nothing, whatever the chapter's children; nothing fails, the
\* rest of the text is rewritten (a text holding only such directives comes
\* out as the text without them), the result is stored in the chapter and the
\* walk goes on to the children.
C10_DraftChapterListsNothing ==
    \A cm \in TocMatches : ~IsSome(cm.chapter.source_path) =>
        /\ cm.m.out = <<>>
        /\ ~cm.call.panicked
        /\ pc \in {"walk", "done"}
        /\ err = <<>>
        /\ Len(cm.call.matches) = Len(FindIter(cm.call.text, 1))
        /\ OnlyToc(cm.call) => cm.call.ret = WithoutToc(cm.call.text, 1)
        /\ \E i \in DOMAIN cm.chapter.content : cm.chapter.content[i] = Text(cm.call.ret)

\* A chapter without a source path and with two child chapters, whose text
\* 'see <toc> and <compass>' has come out with the compass alone.
C10_Witness ==
    \E cm \in TocMatches :
        /\ ~IsSome(cm.chapter.source_path)
        /\ Len(ChildChapters(cm.chapter)) = 2
        /\ Len(cm.call.matches) = 2
        /\ cm.call.matches[2].kind = "Compass"
        /\ cm.call.ret = <<"see ", " and ">> \o cm.call.matches[2].out
        /\ Len(stack) = 2

\* The link of a linked item, and the first position where the components of
\* a target differ from those of a source.
TocLink(line) == Between(line, Positions(line, ItemLinkMid)[1], Len(line))
FirstDifference(tc, sc) ==
    Min({i \in 1..(Len(tc) + 1) : i = Len(tc) + 1 \/ tc[i] # SourceComponent(sc, i)})
LinkedToc ==
    {cm \in TocMatches :
        /\ IsSome(cm.chapter.source_path)
        /\ Len(ChildChapters(cm.chapter)) = 1
        /\ IsSome(ChildChapters(cm.chapter)[1].source_path)}
SourceOf(cm) == Unwrap(cm.chapter.source_path)
TargetOf(cm) == Unwrap(ChildChapters(cm.chapter)[1].source_path)

\* C11: for a source D/f and a target D/r1/../rk the link is r1/../rk, the
\* path from the source's directory to the target; in general the link is
\* made of all the target's components from the first one that differs from
\* the source's, those equal to the source's again included.
C11_RelativeToSourceDirectory ==
    \A cm \in LinkedToc :
        /\ \A d \in Dirs : \A f \in Files : \A r \in Rests :
              (SourceOf(cm) = d \o f /\ TargetOf(cm) = d \o r)
              => TocLink(cm.m.out) = r
        /\ components(TocLink(cm.m.out)) =
              SubSeq(components(TargetOf(cm)),
                     FirstDifference(components(TargetOf(cm)), components(SourceOf(cm))),
                     Len(components(TargetOf(cm))))

\* The listing of a/b/c.md with the child a/d/c.md, whose last component
\* equals the source's: the link is d/c.md.
C11_Witness ==
    \E cm \in LinkedToc :
        /\ SourceOf(cm) = <<"a", Sep, "b", Sep, "c", Dot, "md">>
        /\ TargetOf(cm) = <<"a", Sep, "d", Sep, "c", Dot, "md">>
        /\ TocLink(cm.m.out) = <<"d", Sep, "c", Dot, "md">>

\* The index paths of the chapters of a tree, and of its other items.
RECURSIVE PathsUnder(_, _)
PathsUnder(path, items) ==
    UNION {{path \o <<i>>}
           \cup (IF IsChapter(items[i]) THEN PathsUnder(path \o <<i>>, items[i].sub_items)
                 ELSE {}) : i \in DOMAIN items}
AllPaths == PathsUnder(<<>>, input.sections)
ChapterPaths == {path \in AllPaths : IsChapter(ItemAt(input.sections, path))}

\* C12: no chapter is rewritten twice, and when run returns the book every
\* chapter of the tree, at any depth, has been rewritten once; the separators
\* and part titles are as they were.
C12_EveryChapterOnce ==
    /\ \A i, j \in DOMAIN rewritten : rewritten[i] = rewritten[j] => i = j
    /\ Range(rewritten) \subseteq ChapterPaths
    /\ \A path \in AllPaths \ ChapterPaths :
          ItemAt(book.sections, path) = ItemAt(input.sections, path)
    /\ pc = "done" =>
          /\ Range(rewritten) = ChapterPaths
          /\ Len(rewritten) = Cardinality(ChapterPaths)

\* A finished run over a part title and a chapter with a separator and two
\* chapters that have a chapter of their own: five chapters rewritten.
C12_Witness ==
    /\ pc = "done"
    /\ Len(rewritten) = 5
    /\ \E path \in AllPaths : Len(path) = 3
    /\ \E path \in AllPaths : ItemAt(input.sections, path) = Separator

\* The tree without the contents of its chapters.
RECURSIVE Shape(_)
Shape(items) ==
    [i \in DOMAIN items |->
        IF IsChapter(items[i])
        THEN [kind |-> "Chapter", name |-> items[i].name,
              source_path |-> items[i].source_path,
              sub_items |-> Shape(items[i].sub_items)]
        ELSE items[i]]

\* C13: the book has at every moment, and when run returns it, the shape of
\* the input: the same items in the same order with the same names, source
\* paths and sub-items; only contents of chapters differ.
C13_SameShape ==
    /\ Shape(book.sections) = Shape(input.sections)
    /\ DOMAIN book = DOMAIN input

\* A returned book whose content differs from the input's, for a tree with
\* nested chapters.
C13_Witness ==
    /\ pc = "done"
    /\ book # input
    /\ \E path \in ChapterPaths : Len(path) = 3

\* The calls of preprocess_text that returned, and a second call on the text
\* a call returned, for the same chapter and configuration.
Returned == {c \in Range(calls) : ~c.panicked}
SecondPass(c) == preprocess_text(c.ret, config, ChapterOf(c))
WellFormedIn(text) ==
    \E i \in DOMAIN text : OccursAt(text, i, CompassPattern) \/ OccursAt(text, i, TocPattern)

\* C14 (as stated): scanning again the text a call returned finds no marker
\* and returns the text as it is.
C14_SecondPassFindsNothing ==
    \A c \in Returned :
        /\ FindIter(c.ret, 1) = <<>>
        /\ SecondPass(c).ret = c.ret

\* C14 (what the code does): a returned text that holds no well-formed
\* directive comes back unchanged from a second scan, which matches only the
\* malformed markers the first scan passed through and warns of each again.
C14_NoOpUnlessDirectiveRemains ==
    \A c \in Returned : ~WellFormedIn(c.ret) =>
        /\ SecondPass(c).ret = c.ret
        /\ \A m \in Range(SecondPass(c).matches) : m.kind = "Malformed"
        /\ Len(SecondPass(c).matches) >=
              Cardinality({i \in DOMAIN c.matches : c.matches[i].kind = "Malformed"})

\* A listing whose item is named as a compass directive: the second scan
\* renders a compass in its place.
C14_Witness ==
    \E c \in Returned :
        /\ c.text = TocPattern
        /\ WellFormedIn(c.ret)
        /\ SecondPass(c).ret # c.ret
        /\ SecondPass(c).matches[1].kind = "Compass"

\* A malformed marker passed through and found again by the second scan.
C14_MalformedFoundAgain ==
    \E c \in Returned :
        /\ c.text = MalformedPattern
        /\ c.ret = c.text
        /\ Len(SecondPass(c).matches) = 1

\* A compass directive put together by the first scan, from the text around a
\* listing that came out empty.
C14_DirectiveAssembled ==
    \E c \in Returned :
        /\ c.text = MalformedPattern \o TocPattern \o CompassTail
        /\ c.ret = CompassPattern
        /\ SecondPass(c).ret # c.ret

\* The events of a chapter handed to the rewrite and those stored by it.
EventsIn(path) == ItemAt(input.sections, path).content
EventsOut(path) == ItemAt(book.sections, path).content
IsText(event) == event.type = "Text"
TextIndices(events) == {i \in DOMAIN events : IsText(events[i])}
TextRank(events, i) == Cardinality({j \in TextIndices(events) : j <= i})
LastRewritten == rewritten[Len(rewritten)]

\* C15: the rewrite of a chapter keeps the number and order of its events;
\* every event that is not a text event is stored as it was, every text event
\* is stored as a text event, and the texts scanned are exactly those of the
\* text events, in order, each replaced by what its scan returned.
C15_OnlyTextEvents ==
    /\ \A path \in Range(rewritten) :
          /\ Len(EventsOut(path)) = Len(EventsIn(path))
          /\ \A i \in DOMAIN EventsIn(path) :
                IF IsText(EventsIn(path)[i]) THEN IsText(EventsOut(path)[i])
                ELSE EventsOut(path)[i] = EventsIn(path)[i]
    /\ (rewritten # <<>> /\ calls # <<>> /\ calls[1].chapter = LastRewritten) =>
          /\ Len(calls) = Cardinality(TextIndices(EventsIn(LastRewritten)))
          /\ \A i \in TextIndices(EventsIn(LastRewritten)) :
                /\ calls[TextRank(EventsIn(LastRewritten), i)].text
                      = EventsIn(LastRewritten)[i].text
                /\ EventsOut(LastRewritten)[i]
                      = Text(calls[TextRank(EventsIn(LastRewritten), i)].ret)

\* A heading made of a table-of-contents directive: the directive is
\* rewritten inside the heading.
C15_Witness ==
    /\ rewritten = << <<1>> >>
    /\ EventsIn(<<1>>) = <<Start("Heading"), Text(TocPattern), End("Heading")>>
    /\ EventsOut(<<1>>) # EventsIn(<<1>>)
    /\ EventsOut(<<1>>)[1] = Start("Heading")
    /\ EventsOut(<<1>>)[3] = End("Heading")

\* A code span and a block of HTML that hold directives, stored as they were.
C15_CodeKept ==
    /\ rewritten = << <<1>> >>
    /\ EventsIn(<<1>>) = <<Code(TocPattern), HtmlEvent(CompassPattern), Text(CompassPattern)>>
    /\ EventsOut(<<1>>)[1] = Code(TocPattern)
    /\ EventsOut(<<1>>)[2] = HtmlEvent(CompassPattern)
    /\ EventsOut(<<1>>)[3] # Text(CompassPattern)

\* C16: a capability query succeeds exactly for the renderer name 'html':
\* supports_renderer is true for it and false for every other name, names
\* that differ in case or spaces included, and the supports command exits
\* with success when it is true and with failure otherwise.
C16_SupportsOnlyHtml ==
    (args.command = "supports" /\ pc = "exited") =>
        /\ exit_code \in {Some(SUCCESS), Some(FAILURE)}
        /\ exit_code = Some(SUCCESS) <=> args.renderer = <<"h", "t", "m", "l">>
        /\ supports_renderer(args.renderer) <=> exit_code = Some(SUCCESS)

\* The query for 'HTML' has failed.
C16_Witness ==
    /\ args.command = "supports"
    /\ args.renderer = <<"H", "T", "M", "L">>
    /\ exit_code = Some(FAILURE)

\* The query for 'html' has succeeded.
C16_HtmlSupported ==
    /\ args.command = "supports"
    /\ args.renderer = <<"h", "t", "m", "l">>
    /\ exit_code = Some(SUCCESS)

\* Whether the configuration read from the standard input has the right shape.
WellShaped ==
    /\ NonStringFields = {}
    /\ NonTableSections = {}
    /\ IsSome(raw) /\ "compass" \in DOMAIN Unwrap(raw) => HasCompass

\* C17: the preprocess command exits with success exactly when the input was
\* parsed, the configuration resolved, every chapter rewritten and the book
\* written out; it exits with failure when the input cannot be parsed and
\* when a configuration field has the wrong shape.
C17_PreprocessExitCode ==
    (args.command = "preprocess" /\ pc = "exited") =>
        /\ exit_code = Some(SUCCESS) <=>
              /\ stdin # Unparsable
              /\ input = stdin.book
              /\ WellShaped
              /\ Range(rewritten) = ChapterPaths
              /\ stdout.written = Some(book)
        /\ stdin = Unparsable => exit_code = Some(FAILURE)
        /\ (stdin # Unparsable /\ ~WellShaped) => exit_code = Some(FAILURE)
        /\ exit_code = Some(FAILURE) => stdout.written = None /\ stderr # <<>>

\* A run on a book with a nested chapter has written the book and succeeded.
C17_Witness ==
    /\ args.command = "preprocess"
    /\ exit_code = Some(SUCCESS)
    /\ Len(rewritten) = 2
    /\ stdout.written = Some(book)
    /\ book # input

\* A run on a configuration with a title that is no string has failed.
C17_BadConfigFails ==
    /\ args.command = "preprocess"
    /\ exit_code = Some(FAILURE)
    /\ raw = BadTutorials
    /\ err # <<>>

\* A run on an input that cannot be parsed has failed.
C17_UnparsableFails ==
    /\ args.command = "preprocess"
    /\ stdin = Unparsable
    /\ exit_code = Some(FAILURE)

\* The positions of a text where a malformed marker starts: the marker occurs
\* there and neither well-formed directive does.
MalformedAt(text) ==
    {i \in DOMAIN text :
        /\ OccursAt(text, i, MalformedPattern)
        /\ ~OccursAt(text, i, CompassPattern)
        /\ ~OccursAt(text, i, TocPattern)}
WarningOf(path) == <<MalformedWarning, path>>
TextsOf(chapter) == {chapter.content[i].text : i \in TextIndices(chapter.content)}

\* C18: in a chapter that has a source path a malformed marker is not fatal:
\* the scan returns, the run neither panics nor fails, each malformed match
\* prints one line that names the chapter's source path and the well-formed
\* matches print none; when run returns, stderr holds those lines and no
\* other.
C18_MalformedWarnsOnce ==
    /\ \A c \in Range(calls) : IsSome(ChapterOf(c).source_path) =>
          /\ ~c.panicked
          /\ Len(c.diagnostics) = Cardinality(MalformedAt(c.text))
          /\ \A line \in Range(c.diagnostics) :
                line = WarningOf(Unwrap(ChapterOf(c).source_path))
    /\ (\A path \in ChapterPaths : IsSome(ItemAt(input.sections, path).source_path)) =>
          /\ pc \in {"start", "walk", "done"}
          /\ err = <<>>
          /\ pc = "done" =>
                /\ Len(stderr) = Cardinality(MalformedAt(EventsIn(<<1>>)[1].text))
                /\ Range(stderr) \subseteq {WarningOf(ReadmePath)}

\* A finished run over a text with two malformed markers around a compass
\* directive: two lines were printed.
C18_Witness ==
    /\ pc = "done"
    /\ EventsIn(<<1>>)[1].text = MalformedPattern \o CompassPattern \o MalformedPattern
    /\ stderr = <<WarningOf(ReadmePath), WarningOf(ReadmePath)>>
    /\ EventsOut(<<1>>)[1].text # EventsIn(<<1>>)[1].text

\* The scans of a text with a malformed marker made for a chapter that has no
\* source path.
DraftMalformedCalls ==
    {c \in Range(calls) :
        ~IsSome(ChapterOf(c).source_path) /\ MalformedAt(c.text) # {}}

\* C20: a malformed marker in the content of a chapter without a source path
\* makes the scan panic: the run stops there, returning neither the book nor
\* an error, the chapter's content is not stored and no line is printed for
\* the marker; this happens for a chapter reached through the sub-items of
\* another as well, and a run panics in no other way.
C20_DraftMalformedPanics ==
    /\ \A c \in DraftMalformedCalls :
          /\ c.panicked
          /\ c.matches[Len(c.matches)].kind = "Malformed"
          /\ c.diagnostics = <<>>
          /\ pc \in {"panicked", "exited"}
          /\ err = <<>>
          /\ c.chapter \notin Range(rewritten)
          /\ EventsOut(c.chapter) = EventsIn(c.chapter)
    /\ pc = "panicked" => DraftMalformedCalls # {}
    /\ pc \in {"done", "failed"} => DraftMalformedCalls = {}

\* The walk has panicked in a chapter without a source path reached through
\* the sub-items of a chapter that was rewritten.
C20_Witness ==
    /\ pc = "panicked"
    /\ rewritten = << <<1>> >>
    /\ \E c \in DraftMalformedCalls : c.chapter = <<1, 1>>

\* The install invocations that have ended in success.
InstallSucceeded ==
    /\ args.command = "install"
    /\ pc = "exited"
    /\ exit_code = Some(SUCCESS)

\* The item at a path of keys in book.toml, if every table on the way is there.
ItemIn(table, keys) ==
    IF keys[1] \notin DOMAIN table THEN None
    ELSE IF Len(keys) = 1 THEN Some(table[keys[1]])
    ELSE IF table[keys[1]].type # "Table" THEN None
    ELSE IF keys[2] \notin DOMAIN table[keys[1]].val THEN None
    ELSE IF Len(keys) = 2 THEN Some(table[keys[1]].val[keys[2]])
    ELSE IF table[keys[1]].val[keys[2]].type # "Table" THEN None
    ELSE get(table[keys[1]].val[keys[2]].val, keys[3])

\* The preprocessor.diataxis tables of book.toml: one or none.
DiataxisTables(doc) ==
    IF /\ IsSome(ItemIn(doc, <<"preprocessor", "diataxis">>))
       /\ Unwrap(ItemIn(doc, <<"preprocessor", "diataxis">>)).type = "Table"
    THEN 1 ELSE 0

\* The additional-css entries that are the string of the stylesheet path, as
\* a reader of book.toml sees it.
StylesheetEntries(doc, css_path) ==
    IF /\ IsSome(ItemIn(doc, <<"output", "html", "additional-css">>))
       /\ Unwrap(ItemIn(doc, <<"output", "html", "additional-css">>)).type = "Array"
    THEN Cardinality({i \in DOMAIN Unwrap(ItemIn(doc, <<"output", "html", "additional-css">>)).val :
            Unwrap(ItemIn(doc, <<"output", "html", "additional-css">>)).val[i]
                = StringValue(to_string_lossy(css_path))})
    ELSE 0

CssPath == InstallConfig_from(args).css_path
IsUtf8(p) == \A i \in DOMAIN p : p[i] # InvalidByte

\* C19: after any number of successful installs with the same arguments,
\* book.toml holds exactly one preprocessor.diataxis table and exactly one
\* additional-css entry for the stylesheet path, and book.toml is written at
\* most once, by the first install that finds an entry missing.
C19_RepeatedInstallNoEffect ==
    InstallSucceeded =>
        /\ DiataxisTables(files.book_toml.doc) = 1
        /\ StylesheetEntries(files.book_toml.doc, CssPath) = 1
        /\ files.book_writes <= 1

\* C19, for a stylesheet path that is UTF-8: book.toml is written at most
\* once, it holds a preprocessor.diataxis item and at least one entry for the
\* stylesheet path, and the stylesheet is in place.
C19_Utf8InstallWritesOnce ==
    (InstallSucceeded /\ IsUtf8(CssPath)) =>
        /\ files.book_writes <= 1
        /\ IsSome(ItemIn(files.book_toml.doc, <<"preprocessor", "diataxis">>))
        /\ StylesheetEntries(files.book_toml.doc, CssPath) >= 1
        /\ files.css = Some([path |-> push(args.book_root_dir, CssPath), content |-> Css])

\* C19: a second successful install with a stylesheet path that is no UTF-8
\* has written book.toml a second time and left two entries for the path.
C19_Witness ==
    /\ InstallSucceeded
    /\ runs = 2
    /\ ~IsUtf8(CssPath)
    /\ files.book_writes = 2
    /\ StylesheetEntries(files.book_toml.doc, CssPath) >= 2

\* C19: a second successful install with the default arguments on an empty
\* book.toml has written it once and left one table and one entry.
C19_DefaultTwice ==
    /\ InstallSucceeded
    /\ runs = 2
    /\ IsUtf8(CssPath)
    /\ files.book_writes = 1
    /\ DiataxisTables(files.book_toml.doc) = 1
    /\ StylesheetEntries(files.book_toml.doc, CssPath) = 1

\* C19: an install succeeds on a book.toml whose preprocessor.diataxis is no
\* table, and leaves it so.
C19_DiataxisNoTable ==
    /\ InstallSucceeded
    /\ DiataxisTables(files.book_toml.doc) = 0
    /\ DiataxisWarning \in Range(stderr)

\* The chapter the run failed on: the item whose rewrite returned the error.
SerializeFailed == pc = "failed" /\ stack # <<>> /\ err = CmarkError
FailedPath == Head(stack)

\* The pieces of a message, and whether an error names a chapter: one of its
\* messages holds the chapter's name or a piece of its source path.
NamesChapter(e, chapter) ==
    \E i \in DOMAIN e : \E j \in DOMAIN e[i] :
        \/ <<e[i][j]>> = chapter.name
        \/ IsSome(chapter.source_path) /\ e[i][j] \in Range(Unwrap(chapter.source_path)) \ {Sep, Dot}

\* The chapters whose content differs from the content run was called with.
Changed == {path \in ChapterPaths : EventsOut(path) # EventsIn(path)}

\* C21: when the serializer fails on a chapter, run returns an error, the
\* chapter's content is as it was, no chapter that was not rewritten before
\* has changed, and the error names the chapter.
C21_FatalWithChapterContext ==
    /\ pc = "done" => \A path \in ChapterPaths : cmark(EventsIn(path)).ok
    /\ SerializeFailed =>
        /\ EventsOut(FailedPath) = EventsIn(FailedPath)
        /\ Changed \subseteq Range(rewritten)
        /\ FailedPath \notin Range(rewritten)
        /\ NamesChapter(err, ItemAt(input.sections, FailedPath))

\* C21, as the code has it: the failure is fatal, the chapter's content is
\* as it was and no chapter that was not rewritten before has changed; the
\* error is the serializer's own, with no message before it.
C21_FatalWithoutContext ==
    /\ pc = "done" => \A path \in ChapterPaths : cmark(EventsIn(path)).ok
    /\ SerializeFailed =>
        /\ ~cmark(EventsIn(FailedPath)).ok
        /\ EventsOut(FailedPath) = EventsIn(FailedPath)
        /\ Changed \subseteq Range(rewritten)
        /\ FailedPath \notin Range(rewritten)
        /\ Len(err) = 1
        /\ ~NamesChapter(err, ItemAt(input.sections, FailedPath))

\* C21: the serializer failed on the child of a chapter that was rewritten,
\* and the chapter after them holds a directive that was not expanded.
C21_Witness ==
    /\ SerializeFailed
    /\ FailedPath = <<1, 1>>
    /\ rewritten = << <<1>> >>
    /\ <<1>> \in Changed
    /\ EventsOut(<<2>>) = <<Text(TocPattern)>>

\* The compass and table-of-contents directives found in the text of a
\* chapter that has no source path, each with its scan.
DirectivesOf(c) ==
    {[call |-> c, m |-> c.matches[i]] :
        i \in {j \in DOMAIN c.matches : c.matches[j].kind \in {"Compass", "Toc"}}}
DraftDirectives ==
    UNION {DirectivesOf(c) : c \in {d \in Range(calls) : ~IsSome(ChapterOf(d).source_path)}}

\* C22: a compass or table-of-contents directive in a chapter without a
\* source path is an internal invariant violation: its replacement panics.
C22_DraftDirectivePanics ==
    \A cm \in DraftDirectives : cm.m.panics

\* C22, as the code has it: a compass or table-of-contents directive in a
\* chapter without a source path is rendered without panic or error, the
\* table of contents as nothing and the compass as for any chapter; a scan
\* of such a chapter panics only on a malformed marker.
C22_DraftDirectiveRenders ==
    \A cm \in DraftDirectives :
        /\ ~cm.m.panics
        /\ err = <<>>
        /\ cm.m.kind = "Toc" => cm.m.out = <<>>
        /\ cm.m.kind = "Compass" =>
              cm.m.out = write_compass_to([config |-> config, chapter |-> ChapterOf(cm.call)])
        /\ cm.call.panicked => cm.call.matches[Len(cm.call.matches)].kind = "Malformed"

\* C22: the walk goes on after a chapter without a source path held both
\* directives, and both were replaced.
C22_Witness ==
    /\ pc = "walk"
    /\ rewritten = << <<1>> >>
    /\ \E cm \in DraftDirectives :
          /\ cm.m.kind = "Compass"
          /\ \E i \in DOMAIN cm.call.matches : cm.call.matches[i].kind = "Toc"
          /\ Text(cm.call.ret) \in Range(EventsOut(cm.call.chapter))

(***************************************************************************)
(* The rewrite of the chapters in any order.  preprocess_chapter reads and *)
(* writes one chapter; here the chapter rewritten next is any chapter of   *)
(* the tree not rewritten yet, where run takes them depth first.           *)
(***************************************************************************)
\* preprocess_chapter, lines 31-38, for the chapter at a path.
StoredAt(path, r) ==
    /\ calls' = [i \in DOMAIN r.calls |-> [chapter |-> path] @@ r.calls[i]]
    /\ stderr' = stderr \o Diagnostics(r.calls)
    /\ IF r.panicked
       THEN /\ pc' = "panicked"
            /\ UNCHANGED <<book, rewritten, err>>
       ELSE IF ~r.serialized.ok
       THEN /\ pc' = "failed"
            /\ err' = r.serialized.err
            /\ UNCHANGED <<book, rewritten>>
       ELSE /\ book' = [book EXCEPT !.sections = SetContent(@, path, r.new_content)]
            /\ rewritten' = Append(rewritten, path)
            /\ UNCHANGED <<pc, err>>

RewriteChapter(path) ==
    /\ pc = "walk"
    /\ path \notin Range(rewritten)
    /\ StoredAt(path, preprocess_content(ItemAt(book.sections, path), config))
    /\ UNCHANGED <<raw, input, config, stack>>
    /\ UNCHANGED process

RewriteAny == \E path \in ChapterPaths : RewriteChapter(path)

\* Every chapter has been rewritten: the book is returned.
AllRewritten ==
    /\ pc = "walk"
    /\ Range(rewritten) = ChapterPaths
    /\ pc' = "done"
    /\ UNCHANGED <<raw, input, book, config, err, stack, stderr, calls, rewritten>>
    /\ UNCHANGED process

NextOrder == RunConfig \/ RewriteAny \/ AllRewritten

\* Trees of four chapters, three of them nested, each holding a directive
\* or none.
OrderContents ==
    {<<Text(TocPattern)>>, <<Text(CompassPattern)>>, <<Text(<<"x">>), Code(TocPattern)>>}
OrderBooks ==
    {[sections |->
        <<Chapter(<<"Chapter 1">>, first, Some(<<"a", Sep, "README", Dot, "md">>),
                  <<Chapter(<<"y">>, second, Some(<<"a", Sep, "y", Dot, "md">>),
                            <<Chapter(<<"g">>, third,
                                      Some(<<"a", Sep, "d", Sep, "g", Dot, "md">>), <<>>)>>)>>),
          Chapter(<<"z">>, fourth, Some(<<"b", Dot, "md">>), <<>>)>>] :
        first \in OrderContents, second \in OrderContents,
        third \in OrderContents, fourth \in OrderContents}
InitOrder ==
    /\ raw = None
    /\ book \in OrderBooks
    /\ InitRun
SpecOrder == InitOrder /\ [][NextOrder]_vars

\* The tree run returns, computed item by item from the tree it was given.
RECURSIVE RewriteAll(_, _)
RewriteAll(items, cfg) ==
    [i \in DOMAIN items |->
        IF items[i].kind = "Chapter"
        THEN [items[i] EXCEPT !.content = preprocess_content(items[i], cfg).new_content,
                              !.sub_items = RewriteAll(items[i].sub_items, cfg)]
        ELSE items[i]]

\* What a rewrite may read of a chapter: its content and source path, and the
\* names and source paths of its direct children.
ChildView(item) ==
    IF item.kind = "Chapter"
    THEN Chapter(item.name, <<>>, item.source_path, <<>>)
    ELSE item
View(chapter) ==
    Chapter(<<>>, chapter.content, chapter.source_path,
            [i \in DOMAIN chapter.sub_items |-> ChildView(chapter.sub_items[i])])

\* C23: in whatever order the chapters are rewritten, the content stored in
\* a chapter is the rewrite of what the chapter held when run was called,
\* computed from its content and source path and the names and source paths
\* of its direct children alone, and the tree returned is the same.
C23_AnyOrderSameTree ==
    /\ \A path \in Range(rewritten) :
          EventsOut(path) = preprocess_content(View(ItemAt(input.sections, path)), config).new_content
    /\ \A path \in ChapterPaths \ Range(rewritten) : EventsOut(path) = EventsIn(path)
    /\ pc = "done" => book.sections = RewriteAll(input.sections, config)

\* C23: the book is returned after the innermost chapter was rewritten
\* first and its parents after it, each of them holding a table-of-contents
\* directive.
C23_Witness ==
    /\ pc = "done"
    /\ rewritten = << <<1, 1, 1>>, <<2>>, <<1, 1>>, <<1>> >>
    /\ \A path \in {<<1>>, <<1, 1>>, <<1, 1, 1>>} : EventsIn(path) = <<Text(TocPattern)>>
    /\ EventsOut(<<1>>) # EventsIn(<<1>>)

\* The scans that returned.
ReturnedCalls == {c \in Range(calls) : ~c.panicked}

\* Where a match begins and the text after it resumes in the returned
\* string: the position in the text, moved by what the replacements before
\* have added or removed.
RECURSIVE Shift(_, _)
Shift(ms, n) ==
    IF n = 0 THEN 0
    ELSE Shift(ms, n - 1) + Len(ms[n].out) - (ms[n].end - ms[n].start)
OutStart(c, i) == c.matches[i].start + Shift(c.matches, i - 1)
OutEnd(c, i) == c.matches[i].end + Shift(c.matches, i)

\* The end of the match before the i-th, and the start of the i-th or the
\* end of the text after the last.
PrevEnd(c, i) == IF i = 1 THEN 1 ELSE c.matches[i - 1].end
NextStart(c, i) == IF i > Len(c.matches) THEN Len(c.text) + 1 ELSE c.matches[i].start

\* C24: the matches of one text lie left to right without overlap, each is
\* an occurrence of its marker, no marker begins between the end of a match
\* and the start of the next, and the returned string is the text with each
\* match replaced by its rendering and everything else copied in order.
C24_EveryOccurrenceReplaced ==
    \A c \in ReturnedCalls :
        /\ \A i \in DOMAIN c.matches :
              /\ PrevEnd(c, i) <= c.matches[i].start
              /\ c.matches[i].end = c.matches[i].start + Len(pattern(c.matches[i].kind))
              /\ OccursAt(c.text, c.matches[i].start, pattern(c.matches[i].kind))
              /\ c.matches[i].out =
                    write_to(c.matches[i].kind, [config |-> config, chapter |-> ChapterOf(c)])
              /\ SubSeq(c.ret, OutStart(c, i), OutStart(c, i) + Len(c.matches[i].out) - 1)
                    = c.matches[i].out
        /\ \A i \in 1..(Len(c.matches) + 1) :
              /\ \A p \in PrevEnd(c, i)..(NextStart(c, i) - 1) :
                    ~OccursAt(c.text, p, MalformedPattern)
              /\ SubSeq(c.text, PrevEnd(c, i), NextStart(c, i) - 1)
                    = SubSeq(c.ret, IF i = 1 THEN 1 ELSE OutEnd(c, i - 1),
                             NextStart(c, i) + Shift(c.matches, i - 1) - 1)
        /\ Len(c.ret) = Len(c.text) + Shift(c.matches, Len(c.matches))

\* C24: a text with plain text before two matches of different directives,
\* the second beginning where the first ends.
C24_Witness ==
    \E c \in ReturnedCalls :
        /\ Len(c.matches) = 2
        /\ c.matches[1].start > 1
        /\ c.matches[2].start = c.matches[1].end
        /\ c.matches[1].kind = "Toc"
        /\ c.matches[2].kind = "Compass"
        /\ Len(c.matches[1].out) > 0

\* The events that are no text: code spans, HTML blocks and inline HTML.
IsSpan(event) == event.type \in {"Code", "Html", "InlineHtml"}

\* The text events between the start of a code block and its end.
CodeBlockTexts(events) ==
    {i \in TextIndices(events) :
        \E j \in 1..(i - 1) :
            /\ events[j] = Start("CodeBlock")
            /\ \A k \in (j + 1)..(i - 1) : events[k] # End("CodeBlock")}

\* The rendering of a text that is one directive, in the chapter at a path.
Expansion(text, path) ==
    write_to(IF text = TocPattern THEN "Toc" ELSE "Compass",
             [config |-> config, chapter |-> ItemAt(input.sections, path)])

\* C25: in a rewritten chapter a code span, an HTML block and inline HTML
\* that hold a directive are stored as they were, and a text event inside a
\* code block that is a directive is stored as the directive's rendering,
\* as the same text outside a code block is.
C25_CodeBlocksExpanded ==
    \A path \in Range(rewritten) :
        /\ \A i \in DOMAIN EventsIn(path) :
              IsSpan(EventsIn(path)[i]) => EventsOut(path)[i] = EventsIn(path)[i]
        /\ \A i \in TextIndices(EventsIn(path)) :
              EventsIn(path)[i].text \in {TocPattern, CompassPattern} =>
                  EventsOut(path)[i] = Text(Expansion(EventsIn(path)[i].text, path))

\* C25: a code block whose body is a table-of-contents directive has come
\* out with the listing of the child in place of the directive.
C25_Witness ==
    /\ rewritten = << <<1>> >>
    /\ EventsIn(<<1>>) = <<Start("CodeBlock"), Text(TocPattern), End("CodeBlock")>>
    /\ CodeBlockTexts(EventsIn(<<1>>)) = {2}
    /\ EventsOut(<<1>>)[2] = Text(<<ItemLinkOpen, "y", ItemLinkMid, "y", Dot, "md", ItemLinkClose>>)

\* C25: inline HTML, a code span and an HTML block that hold directives
\* have come out as they were.
C25_SpansKept ==
    /\ rewritten = << <<1>> >>
    /\ EventsIn(<<1>>) = <<InlineHtml(TocPattern), Code(TocPattern), HtmlEvent(CompassPattern)>>
    /\ EventsOut(<<1>>) = EventsIn(<<1>>)

\* The positions of a text where a marker begins: every pattern begins with
\* the malformed marker.
MarkerStarts(text) == {p \in DOMAIN text : OccursAt(text, p, MalformedPattern)}
Holds(text, p) == \E i \in DOMAIN text : OccursAt(text, i, p)

\* C26: the replacements made in one text are as many as the markers of
\* the text itself; a match's rendering stands in the returned string as
\* it was written, with the markers that a configured title, description
\* or link or a child's name holds left in it as they are.
C26_OutputNotRescanned ==
    \A c \in ReturnedCalls :
        /\ Len(c.matches) = Cardinality(MarkerStarts(c.text))
        /\ \A i \in DOMAIN c.matches :
              /\ SubSeq(c.ret, OutStart(c, i), OutStart(c, i) + Len(c.matches[i].out) - 1)
                    = c.matches[i].out
              /\ (c.matches[i].kind = "Compass" /\ raw = MarkerConfig) =>
                    /\ Holds(c.matches[i].out, <<CardHref>> \o TocPattern \o <<CardHeader>>)
                    /\ Holds(c.matches[i].out, <<CardHeader>> \o CompassPattern \o <<CardClose>>)
                    /\ Holds(c.matches[i].out, <<CardOpen>> \o MalformedPattern)
              /\ (c.matches[i].kind = "Toc" /\ IsSome(ChapterOf(c).source_path)) =>
                    \A k \in DOMAIN ChildChapters(ChapterOf(c)) :
                        Holds(c.matches[i].out, ChildChapters(ChapterOf(c))[k].name)

\* C26: a text of a table-of-contents directive and a compass directive was
\* replaced twice, and the returned string holds the markers of the child
\* names and of the configured strings: more markers than the text had.
C26_Witness ==
    \E c \in ReturnedCalls :
        /\ c.text = TocPattern \o CompassPattern
        /\ Len(c.matches) = 2
        /\ Holds(c.matches[1].out, CompassPattern)
        /\ Holds(c.matches[2].out, TocPattern)
        /\ Cardinality(MarkerStarts(c.ret)) = 5

\* compass is present in the preprocessor table and is no table.
CompassNoTable ==
    /\ IsSome(raw)
    /\ "compass" \in DOMAIN Unwrap(raw)
    /\ Unwrap(raw)["compass"].type # "Table"
CompassError == << <<"'compass' field must be a table">> >>
SectionError(section) == << <<"'compass.", section, "' field must be a table">> >>

\* The sections that fail to resolve, and the first of them in the order
\* tutorials, how-to-guides, explanation, reference.
BadSections == NonTableSections \cup {sf[1] : sf \in NonStringFields}
FirstBad == Sections[Min({i \in DOMAIN Sections : Sections[i] \in BadSections})]

\* C27: a compass that is no table, or a section under compass that is no
\* table, makes run fail with an error naming it; of several sections that
\* fail the first in the order tutorials, how-to-guides, explanation,
\* reference gives the error; and a run that fails on its configuration has
\* visited no chapter and changed nothing.
C27_NonTableFailsInOrder ==
    /\ (CompassNoTable \/ BadSections # {}) => pc \in {"start", "failed"}
    /\ (CompassNoTable /\ pc = "failed") => err = CompassError
    /\ (BadSections # {} /\ pc = "failed") =>
          IF FirstBad \in NonTableSections THEN err = SectionError(FirstBad)
          ELSE \E sf \in NonStringFields : sf[1] = FirstBad /\ err = FieldError(sf[1], sf[2])
    /\ pc = "failed" =>
          /\ CompassNoTable \/ BadSections # {}
          /\ rewritten = <<>>
          /\ calls = <<>>
          /\ stderr = <<>>
          /\ book = input
          /\ config = ConfigDefault
    /\ pc \in {"walk", "done"} => ~CompassNoTable /\ BadSections = {}

\* C27: a run has failed on a configuration in which two sections are no
\* tables, with the error of the earlier one.
C27_Witness ==
    /\ pc = "failed"
    /\ NonTableSections = {"explanation", "reference"}
    /\ err = SectionError("explanation")

\* C27: a run has failed on a compass that is no table.
C27_CompassNoTable ==
    /\ pc = "failed"
    /\ CompassNoTable
    /\ err = CompassError

\* What makes a preprocess invocation fail before the book is written: the
\* input, the version string, the configuration, or a chapter that cannot be
\* serialized; and the panic of a scan, which ends the process.
Preprocessing == args.command = "preprocess"
Writable == \A path \in ChapterPaths : cmark(EventsIn(path)).ok
InputGood ==
    /\ stdin.parses
    /\ stdin.mdbook_version.valid
    /\ input = stdin.book
    /\ WellShaped
    /\ Writable
NoFailureBeforeWrite == InputGood /\ Range(rewritten) = ChapterPaths

\* C28: the book is on the standard output only when the input was parsed,
\* the version read, the configuration resolved and every chapter rewritten,
\* and then the process has succeeded; a process that failed has written
\* nothing to it and has printed the error; a version the requirement does
\* not match is warned of and changes nothing else.
C28_WrittenOnlyAfterSuccess ==
    Preprocessing =>
        /\ stdout.written # None =>
              /\ NoFailureBeforeWrite
              /\ stdout.written = Some(book)
              /\ pc = "exited"
              /\ exit_code = Some(SUCCESS)
        /\ (pc = "exited" /\ exit_code = Some(FAILURE)) =>
              /\ stdout.written = None
              /\ stderr # <<>>
              /\ ~NoFailureBeforeWrite \/ ~stdout.open
        /\ (pc = "exited" /\ ~NoFailureBeforeWrite) => exit_code # Some(SUCCESS)
        /\ (pc = "exited" /\ InputGood /\ stdout.open /\ exit_code # Some("PANIC")) =>
              /\ exit_code = Some(SUCCESS)
              /\ Range(rewritten) = ChapterPaths
        /\ (stdin.parses /\ stdin.mdbook_version.valid /\ pc \notin {"main", "check_version"}) =>
              (~stdin.mdbook_version.matches <=> <<VersionWarning>> \in Range(stderr))

\* C28: a process called from a version the requirement does not match has
\* warned, rewritten the book, written it and succeeded.
C28_Witness ==
    /\ Preprocessing
    /\ ~stdin.mdbook_version.matches
    /\ <<VersionWarning>> \in Range(stderr)
    /\ exit_code = Some(SUCCESS)
    /\ stdout.written = Some(book)
    /\ book # input

\* C28: a process has failed on a chapter that cannot be serialized, after
\* another chapter was rewritten, and has written nothing.
C28_FailedUnwritten ==
    /\ Preprocessing
    /\ exit_code = Some(FAILURE)
    /\ ~Writable
    /\ rewritten # <<>>
    /\ stdout.written = None
    /\ CmarkError[1] \in Range(stderr)

\* The install invocations that have ended, and what makes the edit of
\* book.toml fail: the file cannot be read or parsed, or an entry on the way
\* has the wrong type.
InstallEnded == args.command = "install" /\ pc = "exited"
HasType(doc, keys, type) ==
    IsSome(ItemIn(doc, keys)) => Unwrap(ItemIn(doc, keys)).type = type
EditFails ==
    \/ files.book_toml.state # "document"
    \/ ~HasType(files.book_toml.doc, <<"output">>, "Table")
    \/ ~HasType(files.book_toml.doc, <<"output", "html">>, "Table")
    \/ ~HasType(files.book_toml.doc, <<"output", "html", "additional-css">>, "Array")
    \/ ~HasType(files.book_toml.doc, <<"preprocessor">>, "Table")

\* C29: an install fails exactly when the edit of book.toml fails; then
\* book.toml was never written, the stylesheet is not there and the error
\* printed begins with the context of the edit; a preprocessor.diataxis
\* that is no table is warned of and the install succeeds, leaving it.
C29_FailedEditWritesNothing ==
    InstallEnded =>
        /\ exit_code = Some(FAILURE) <=> EditFails
        /\ exit_code = Some(FAILURE) =>
              /\ files.book_writes = 0
              /\ files.css = None
              /\ Len(stderr) = 2
              /\ stderr[1] = <<"cannot edit book.toml">>
        /\ exit_code = Some(SUCCESS) =>
              /\ IsSome(files.css)
              /\ DiataxisWarning \in Range(stderr)
                    <=> DiataxisTables(files.book_toml.doc) = 0

\* C29: an install has failed on a preprocessor entry that is no table,
\* after the entries under output were added in memory: book.toml still has
\* no output table and the stylesheet is not written.
C29_Witness ==
    /\ InstallEnded
    /\ exit_code = Some(FAILURE)
    /\ files.book_toml.state = "document"
    /\ ~IsSome(ItemIn(files.book_toml.doc, <<"output">>))
    /\ ~HasType(files.book_toml.doc, <<"preprocessor">>, "Table")
    /\ files.css = None
    /\ files.book_writes = 0

\* C29: an install has succeeded with a warning on a book.toml that it had
\* to edit and whose preprocessor.diataxis is no table.
C29_WarnedAndWritten ==
    /\ InstallEnded
    /\ exit_code = Some(SUCCESS)
    /\ DiataxisWarning \in Range(stderr)
    /\ files.book_writes = 1
    /\ IsSome(files.css)

====
